---- MODULE Spec2Model ----
(***************************************************************************)
(* BaRDIC: the two HDF5-backed stores of bardic/api/formats.py (DnaDataset, *)
(* the raw-contact store, and Rdc, the pixel store) and the significance    *)
(* engine of bardic/utils/peaks.py that works on the pixel store.           *)
(*                                                                          *)
(* A file is modelled by the groups, datasets and attributes it holds; an   *)
(* operation of a store object is one action that computes what the whole   *)
(* method leaves in the file and whether it returned or raised.             *)
(*                                                                          *)
(* Numbers a table or a dataset holds are fixed-point: a number x is the    *)
(* integer x * Scale ("ticks"), so that int64/float/bool conversions are    *)
(* computed, not assumed. NaN and a non-numeric object are two sentinels.   *)
(***************************************************************************)
EXTENDS Integers, Sequences, FiniteSets, TLC

VARIABLES rdcFile, rdcObj, dnaFile, dnaObj, last

vars == <<rdcFile, rdcObj, dnaFile, dnaObj, last>>

(***************************************************************************)
(* Bounds of the model                                                      *)
(***************************************************************************)
\* longest table (number of rows) handed to a write operation
MaxRows == 2

RNAs == {"r1", "r2"}
Chroms == {"c1", "c2"}
\* h5py iterates the members of a group, and pandas the groups of a groupby,
\* in name order
ChromOrder == <<"c1", "c2">>
RnaOrder == <<"r1", "r2">>

\* ticks per unit
Scale == 2 * 2
NaN == 0 - 1
\* a cell holding an object that is no number (a string)
NotANumber == 0 - 2

Range(s) == {s[i] : i \in DOMAIN s}
SetMin(S) == CHOOSE x \in S : \A y \in S : x <= y
EmptyFn == [x \in {} |-> 0]
PosIn(seq, x) == CHOOSE i \in DOMAIN seq : seq[i] = x

RECURSIVE SeqsUpTo(_, _)
SeqsUpTo(S, n) ==
    IF n = 0 THEN {<<>>}
    ELSE LET shorter == SeqsUpTo(S, n - 1)
         IN shorter \cup {Append(s, x) : s \in {t \in shorter : Len(t) = n - 1}, x \in S}

(***************************************************************************)
(* Rdc.pixels_cols_by_version: the columns of a version, in dict order,     *)
(* each with its dtype                                                      *)
(***************************************************************************)
CommonCols ==
    << <<"start", "int64">>, <<"end", "int64">>, <<"signal_count", "int64">>,
       <<"signal_prob", "float">>, <<"impute", "bool">>, <<"bg_count", "float">>,
       <<"bg_prob", "float">>, <<"raw_bg_prob", "float">>,
       <<"scaling_factor", "float">>, <<"fc", "float">>, <<"pvalue", "float">> >>

pixels_cols_by_version(ver) ==
    IF ver = "1" THEN CommonCols \o << <<"qvalue", "float">> >>
    ELSE CommonCols \o << <<"qvalue_global", "float">>, <<"qvalue_rna", "float">> >>

RdcSupported == {"1", "1.1"}
DnaSupported == {"1"}

ColNames(sch) == {sch[i][1] : i \in DOMAIN sch}
DTypeIn(sch, col) == sch[PosIn([i \in DOMAIN sch |-> sch[i][1]], col)][2]
\* dtype of a stored dataset: the two versions agree on every shared name
AllCols == pixels_cols_by_version("1") \o pixels_cols_by_version("1.1")
DTypeOf(col) == DTypeIn(AllCols, col)

(***************************************************************************)
(* numpy astype on one cell, and the value a reader gets back               *)
(***************************************************************************)
CanCast(dtype, t) == t # NotANumber \/ dtype = "bool"

AsType(dtype, t) ==
    CASE dtype = "int64" -> t \div Scale
      [] dtype = "float" -> t
      [] dtype = "bool" -> IF t = 0 THEN 0 ELSE 1

FromStored(dtype, x) ==
    CASE dtype = "int64" -> x * Scale
      [] dtype = "float" -> x
      [] dtype = "bool" -> x * Scale

(***************************************************************************)
(* Inputs: Pixel tables, gene coordinates and RnaAttrs                      *)
(***************************************************************************)
\* a table is [cols, rows]; a row is [chrom, v], v a function of the columns
BaseCols == {"start", "end", "signal_count", "impute", "bg_prob"}
StatCols == {"pvalue", "qvalue_global", "qvalue_rna"}
ColChoices == {BaseCols, BaseCols \cup StatCols, BaseCols \cup {"pvalue", "qvalue"}}

\* the kinds of bin a table is made of: a chromosome and a signal count
RowKinds == {[chrom |-> "c1", sc |-> 1], [chrom |-> "c2", sc |-> 0]}
RowSeqs == SeqsUpTo(RowKinds, MaxRows)

\* variant "ok" is a well-typed Pixel table; "frac" holds fractional signal
\* counts; "obj" holds a non-numeric object in the signal count of its last row
Cell(col, i, k, n, variant) ==
    CASE col = "start" -> (i - 1) * Scale
      [] col = "end" -> i * Scale
      [] col = "signal_count" ->
            IF variant = "obj" /\ i = n THEN NotANumber
            ELSE IF variant = "frac" THEN k.sc * Scale + (Scale \div 2)
            ELSE k.sc * Scale
      [] col = "impute" -> 0
      [] col = "bg_prob" -> Scale \div 2
      [] OTHER -> IF k.sc = 0 THEN NaN ELSE Scale \div 2

MkTable(cols, ks, variant) ==
    [cols |-> cols,
     rows |-> [i \in DOMAIN ks |->
                 [chrom |-> ks[i].chrom,
                  v |-> [c \in cols |-> Cell(c, i, ks[i], Len(ks), variant)]]]]

\* MaxRows bins with signal, on the two chromosomes in turn
TwoChromRows == [i \in 1..MaxRows |-> [chrom |-> ChromOrder[2 - (i % 2)], sc |-> 1]]

PixelTables ==
    {MkTable(BaseCols, ks, "ok") : ks \in RowSeqs}
      \cup {MkTable(BaseCols, TwoChromRows, va) : va \in {"frac", "obj"}}
      \cup {MkTable(cc, TwoChromRows, "ok") : cc \in ColChoices}

TableChroms(tbl) == {tbl.rows[i].chrom : i \in DOMAIN tbl.rows}
RowsOf(tbl, c) == SelectSeq(tbl.rows, LAMBDA r : r.chrom = c)

\* every cell already has the type its column's dtype asks for
WellTyped(tbl, sch) ==
    \A i \in DOMAIN tbl.rows : \A c \in tbl.cols \cap ColNames(sch) :
        LET t == tbl.rows[i].v[c]
            dt == DTypeIn(sch, c)
        IN /\ t # NotANumber
           /\ dt = "int64" => t >= 0 /\ t % Scale = 0
           /\ dt = "bool" => t \in {0, Scale}

\* GeneCoord of an RNA (the annotation)
GeneCoord(rna) ==
    IF rna = "r1" THEN [chrom |-> "c1", start |-> 0, end |-> 1]
    ELSE [chrom |-> "c2", start |-> 1, end |-> 2]

\* RnaAttrs, as a dict; a field may be None
RnaAttrNames == {"cis_factor", "trans_bin_size", "cis_start", "cis_contacts", "trans_contacts"}
None == 0 - 1
AttrChoices ==
    {[cis_factor |-> 2, trans_bin_size |-> 2, cis_start |-> 1, cis_contacts |-> 1, trans_contacts |-> 1],
     [cis_factor |-> None, trans_bin_size |-> 2, cis_start |-> 1, cis_contacts |-> 1, trans_contacts |-> 0]}

(***************************************************************************)
(* The pixel store's file                                                   *)
(***************************************************************************)
NoPixels == [present |-> FALSE, g |-> EmptyFn]
NoChromSizes == [present |-> FALSE, sizes |-> EmptyFn]

HasRna(pixels, rna) == pixels.present /\ rna \in DOMAIN pixels.g

\* the first column of chromosome c, in schema order, that astype cannot convert
BadCols(tbl, c, sch) ==
    {i \in DOMAIN sch :
        /\ sch[i][1] \in tbl.cols
        /\ \E j \in DOMAIN tbl.rows :
              tbl.rows[j].chrom = c /\ ~CanCast(sch[i][2], tbl.rows[j].v[sch[i][1]])}

BadChroms(tbl, sch) ==
    {j \in DOMAIN ChromOrder :
        ChromOrder[j] \in TableChroms(tbl) /\ BadCols(tbl, ChromOrder[j], sch) # {}}

\* the datasets _write_pixels creates for chromosome c: every column of the
\* schema that the table has, up to the first that fails to convert
ChromDatasets(tbl, c, sch) ==
    LET bad == BadCols(tbl, c, sch)
        done == {i \in DOMAIN sch : sch[i][1] \in tbl.cols /\ (bad = {} \/ i < SetMin(bad))}
    IN [col \in {sch[i][1] : i \in done} |->
          LET rs == RowsOf(tbl, c)
          IN [i \in DOMAIN rs |-> AsType(DTypeIn(sch, col), rs[i].v[col])]]

\* the attributes _write_pixels sets: asdict(rna_attrs), updated with
\* asdict(rna_coords), the None values left out
GroupAttrs(coord, attrs) ==
    [a \in {n \in RnaAttrNames : attrs[n] # None} \cup {"start", "end"} |->
        IF a \in {"start", "end"} THEN coord[a] ELSE attrs[a]]

\* Rdc._write_pixels: the group it leaves for the RNA, and whether it returned.
\* The old group is deleted first; the chromosomes are written in groupby
\* order, and an exception leaves what was written before it.
WrittenGroup(tbl, coord, attrs, sch) ==
    LET bad == BadChroms(tbl, sch)
        cs == {c \in TableChroms(tbl) : bad = {} \/ PosIn(ChromOrder, c) <= SetMin(bad)}
    IN [ok |-> bad = {},
        group |-> [attrs |-> GroupAttrs(coord, attrs),
                   chrom |-> coord.chrom,
                   chroms |-> [c \in cs |-> ChromDatasets(tbl, c, sch)]]]

\* a writer that creates the group only when it is missing, and otherwise
\* writes into the group that is there (no `del pixels_group[rna_name]`)
PutGroupKeeping(pixels, rna, w) ==
    [ok |-> w.ok,
     pixels |-> [present |-> TRUE,
                 g |-> [r \in (DOMAIN pixels.g) \cup {rna} |->
                          IF r # rna THEN pixels.g[r]
                          ELSE IF rna \notin DOMAIN pixels.g THEN w.group
                          ELSE [attrs |-> [a \in (DOMAIN pixels.g[r].attrs) \cup DOMAIN w.group.attrs |->
                                             IF a \in DOMAIN w.group.attrs THEN w.group.attrs[a]
                                             ELSE pixels.g[r].attrs[a]],
                                chrom |-> w.group.chrom,
                                chroms |-> [c \in (DOMAIN pixels.g[r].chroms) \cup DOMAIN w.group.chroms |->
                                              IF c \in DOMAIN w.group.chroms THEN w.group.chroms[c]
                                              ELSE pixels.g[r].chroms[c]]]]]]

PutGroup(pixels, rna, w) ==
    [ok |-> w.ok,
     pixels |-> [present |-> TRUE,
                 g |-> [r \in (DOMAIN pixels.g) \cup {rna} |->
                          IF r = rna THEN w.group ELSE pixels.g[r]]]]

_write_pixels(pixels, rna, tbl, coord, attrs, sch) ==
    PutGroup(pixels, rna, WrittenGroup(tbl, coord, attrs, sch))

(***************************************************************************)
(* Rdc._read_pixels                                                         *)
(***************************************************************************)
AllFields == [given |-> FALSE, fields |-> {}]
Fields(fs) == [given |-> TRUE, fields |-> fs]

ValidChroms(group, chrom_type) ==
    CASE chrom_type = "None" -> DOMAIN group.chroms
      [] chrom_type = "cis" -> {group.chrom}
      [] chrom_type = "trans" -> (DOMAIN group.chroms) \ {group.chrom}

\* the chromosome groups the loop of _read_pixels does not skip, in name order
ReadChroms(group, chrom_type) ==
    SelectSeq(ChromOrder,
              LAMBDA c : c \in DOMAIN group.chroms /\ c \in ValidChroms(group, chrom_type))

\* value_fields = None is replaced by the value columns of the first
\* chromosome group read, and then kept for the chromosomes that follow
ReadFields(group, value_fields, cs) ==
    {"start", "end"} \cup
        (IF value_fields.given THEN value_fields.fields
         ELSE (DOMAIN group.chroms[cs[1]]) \ {"start", "end"})

\* pd.DataFrame(data)[['chrom'] + all_fields] of one chromosome group
ChromFrameOk(cg, fields) ==
    /\ \A f1 \in fields \cap DOMAIN cg : \A f2 \in fields \cap DOMAIN cg :
          Len(cg[f1]) = Len(cg[f2])
    /\ fields \subseteq DOMAIN cg

ChromFrame(cg, c, fields) ==
    [i \in 1..Len(cg["start"]) |->
        [chrom |-> c, v |-> [f \in fields |-> FromStored(DTypeOf(f), cg[f][i])]]]

RECURSIVE ConcatFrames(_, _, _)
ConcatFrames(group, cs, fields) ==
    IF cs = <<>> THEN <<>>
    ELSE ChromFrame(group.chroms[Head(cs)], Head(cs), fields)
           \o ConcatFrames(group, Tail(cs), fields)

ReadFrames(group, cs, fields) ==
    IF \A i \in DOMAIN cs : ChromFrameOk(group.chroms[cs[i]], fields)
    THEN [ok |-> TRUE, rows |-> ConcatFrames(group, cs, fields)]
    ELSE [ok |-> FALSE, rows |-> <<>>]

ReadGroup(group, cs, value_fields) ==
    IF cs = <<>> THEN [ok |-> FALSE, rows |-> <<>>]   \* pd.concat of an empty list
    ELSE ReadFrames(group, cs, ReadFields(group, value_fields, cs))

_read_pixels(pixels, rna, value_fields, chrom_type) ==
    IF ~HasRna(pixels, rna) \/ chrom_type \notin {"None", "cis", "trans"}
    THEN [ok |-> FALSE, rows |-> <<>>]
    ELSE ReadGroup(pixels.g[rna], ReadChroms(pixels.g[rna], chrom_type), value_fields)

(***************************************************************************)
(* Rdc._write_pixels_column and its batch                                   *)
(***************************************************************************)
FrameChroms(frame) == SelectSeq(ChromOrder, LAMBDA c : c \in TableChroms(frame))

\* writing column col of chromosome c raises
ColumnWriteFails(group, c, col, frame, sch) ==
    \/ c \notin DOMAIN group.chroms
    \/ col \notin ColNames(sch)
    \/ col \notin frame.cols
    \/ \E i \in DOMAIN frame.rows :
          frame.rows[i].chrom = c /\ ~CanCast(DTypeIn(sch, col), frame.rows[i].v[col])
    \/ /\ col \in DOMAIN group.chroms[c]
       /\ Len(RowsOf(frame, c)) \notin {1, Len(group.chroms[c][col])}

ColumnData(frame, c, col, sch) ==
    LET rs == RowsOf(frame, c)
    IN [i \in DOMAIN rs |-> AsType(DTypeIn(sch, col), rs[i].v[col])]

\* the chromosome groups of cs written before the first that raises
DoneChroms(cs, bad) == {cs[i] : i \in {j \in DOMAIN cs : bad = {} \/ j < SetMin(bad)}}

\* chrom_group[col_name][...] = arr_data broadcasts an array of one element
\* over the dataset; create_dataset stores the array as it is
WithColumn(cg, col, data) ==
    [f \in (DOMAIN cg) \cup {col} |->
        IF f # col THEN cg[f]
        ELSE IF col \in DOMAIN cg
        THEN [i \in DOMAIN cg[col] |-> IF Len(data) = 1 THEN data[1] ELSE data[i]]
        ELSE data]

PutColumn(pixels, rna, col, frame, sch, group, done, ok) ==
    [ok |-> ok,
     pixels |-> [pixels EXCEPT !.g[rna].chroms =
                   [c \in DOMAIN group.chroms |->
                      IF c \in done
                      THEN WithColumn(group.chroms[c], col, ColumnData(frame, c, col, sch))
                      ELSE group.chroms[c]]]]

WriteColumn(pixels, rna, col, frame, sch, group, cs, bad) ==
    PutColumn(pixels, rna, col, frame, sch, group, DoneChroms(cs, bad), bad = {})

FailingChroms(group, cs, col, frame, sch) ==
    {i \in DOMAIN cs : ColumnWriteFails(group, cs[i], col, frame, sch)}

_write_pixels_column(pixels, rna, col, frame, sch) ==
    IF ~HasRna(pixels, rna) THEN [ok |-> FALSE, pixels |-> pixels]
    ELSE WriteColumn(pixels, rna, col, frame, sch, pixels.g[rna], FrameChroms(frame),
                     FailingChroms(pixels.g[rna], FrameChroms(frame), col, frame, sch))

\* col_frames is a dict RNA -> frame, written in the order of its items; the
\* first RNA that raises ends the batch
RECURSIVE ColumnBatch(_, _, _, _, _)
ColumnBatchStep(w, order, col, col_frames, sch) ==
    IF w.ok THEN ColumnBatch(w.pixels, Tail(order), col, col_frames, sch) ELSE w

ColumnBatch(pixels, order, col, col_frames, sch) ==
    IF order = <<>> THEN [ok |-> TRUE, pixels |-> pixels]
    ELSE ColumnBatchStep(
             _write_pixels_column(pixels, Head(order), col, col_frames[Head(order)], sch),
             order, col, col_frames, sch)

DictOrder(d) == SelectSeq(RnaOrder, LAMBDA r : r \in DOMAIN d)

write_pixels_column_batch(pixels, col, col_frames, sch) ==
    ColumnBatch(pixels, DictOrder(col_frames), col, col_frames, sch)

\* Rdc.write_pixels_batch: one _write_pixels per item, in the order of the
\* dict, under one open file; the first RNA that raises ends the batch
RECURSIVE PixelsBatch(_, _, _, _)
PixelsBatchStep(w, order, data, sch) ==
    IF w.ok THEN PixelsBatch(w.pixels, Tail(order), data, sch)
    ELSE [ok |-> FALSE, pixels |-> w.pixels, failed |-> Head(order)]

PixelsBatch(pixels, order, data, sch) ==
    IF order = <<>> THEN [ok |-> TRUE, pixels |-> pixels, failed |-> "none"]
    ELSE PixelsBatchStep(
             _write_pixels(pixels, Head(order), data[Head(order)].pixels,
                           data[Head(order)].gene_coord, data[Head(order)].rna_attrs, sch),
             order, data, sch)

write_pixels_batch(pixels, data, sch) ==
    PixelsBatch(pixels, DictOrder(data), data, sch)

(***************************************************************************)
(* The significance engine (bardic/utils/peaks.py)                          *)
(***************************************************************************)
RECURSIVE Pow(_, _)
Pow(a, b) == IF b = 0 THEN 1 ELSE a * Pow(a, b - 1)

RECURSIVE Binom(_, _)
Binom(n, k) == IF k = 0 \/ k = n THEN 1 ELSE Binom(n - 1, k - 1) + Binom(n - 1, k)

RECURSIVE TailSum(_, _, _)
\* sum over i = k..n of C(n,i) p^i (1-p)^(n-i), scaled by Scale^n
TailSum(k, n, p) ==
    IF k > n THEN 0
    ELSE Binom(n, k) * Pow(p, k) * Pow(Scale - p, n - k) + TailSum(k + 1, n, p)

\* scipy.stats.binomtest(k, n, p, alternative='greater'): it raises unless
\* 0 <= k <= n, n >= 1 and 0 <= p <= 1
BinomTestRaises(k, n, p) == n < 1 \/ k > n \/ p < 0 \/ p > Scale
BinomTestGreater(k, n, p) == (TailSum(k, n, p) * Scale) \div Pow(Scale, n)

\* the lambda of _calculate_pvals_single, on one row
RowPvalRaises(sc, n, bg) == sc # 0 /\ BinomTestRaises(sc, n, bg)
RowPval(sc, n, bg) == IF sc = 0 THEN NaN ELSE BinomTestGreater(sc, n, bg)

\* _calculate_pvals_single: [ok, rows], a row being [chrom, pvalue]
RowSc(row) == row.v["signal_count"] \div Scale
RowBg(row) == row.v["bg_prob"]

PvalsOf(r, total_contacts) ==
    IF ~r.ok \/ \E i \in DOMAIN r.rows :
                   RowPvalRaises(RowSc(r.rows[i]), total_contacts, RowBg(r.rows[i]))
    THEN [ok |-> FALSE, rows |-> <<>>]
    ELSE [ok |-> TRUE,
          rows |-> [i \in DOMAIN r.rows |->
                      [chrom |-> r.rows[i].chrom,
                       pvalue |-> RowPval(RowSc(r.rows[i]), total_contacts, RowBg(r.rows[i]))]]]

_calculate_pvals_single(pixels, rna, total_contacts) ==
    PvalsOf(_read_pixels(pixels, rna, Fields({"signal_count", "bg_prob"}), "None"),
            total_contacts)

\* a merge that leaves out the RNAs whose worker raised
MergeDone(results) ==
    [ok |-> TRUE,
     stats |-> [r \in {x \in DOMAIN results : results[x].ok} |-> results[r].rows]]

\* _calculate_pvals: the p-values of every RNA group of the store; an exception
\* in any worker, or a missing contact count, is raised to the caller
\* process_map hands back the results of all RNAs, or the exception of a worker
MergeResults(results) ==
    IF \A r \in DOMAIN results : results[r].ok
    THEN [ok |-> TRUE, stats |-> [r \in DOMAIN results |-> results[r].rows]]
    ELSE [ok |-> FALSE, stats |-> EmptyFn]

TotalContacts(attrs) == attrs["cis_contacts"] + attrs["trans_contacts"]

_calculate_pvals(pixels) ==
    IF ~pixels.present THEN [ok |-> FALSE, stats |-> EmptyFn]
    ELSE MergeResults(
           [r \in DOMAIN pixels.g |->
              IF {"cis_contacts", "trans_contacts"} \subseteq DOMAIN pixels.g[r].attrs
              THEN _calculate_pvals_single(pixels, r, TotalContacts(pixels.g[r].attrs))
              ELSE [ok |-> FALSE, rows |-> <<>>]])

\* Benjamini-Hochberg (statsmodels multipletests, method fdr_bh) of the p-value
\* p among the p-values ps: the least p' * m / rank(p') over the p' >= p,
\* capped at 1
CountLeq(ps, x) == Cardinality({i \in DOMAIN ps : ps[i] <= x})
FdrBh(ps, p) ==
    SetMin({Scale} \cup {(ps[i] * Len(ps)) \div CountLeq(ps, ps[i]) :
                            i \in {j \in DOMAIN ps : ps[j] >= p}})
\* multipletests divides by the number of tests
MultipletestsRaises(ps) == Len(ps) = 0

NonNaN(rows) == SelectSeq([i \in DOMAIN rows |-> rows[i].pvalue], LAMBDA x : x # NaN)

RECURSIVE Pooled(_, _)
Pooled(stats, order) ==
    IF order = <<>> THEN <<>>
    ELSE NonNaN(stats[Head(order)]) \o Pooled(stats, Tail(order))

\* total_stats after lines 43-59: every row of every RNA with its pvalue and,
\* where the pvalue is a number, its two q-values
QValue(p, ps) == IF p = NaN THEN NaN ELSE FdrBh(ps, p)

StatRows(rows, pooled, own) ==
    [i \in DOMAIN rows |->
        [chrom |-> rows[i].chrom,
         v |-> [c \in {"pvalue", "qvalue_global", "qvalue_rna"} |->
                  CASE c = "pvalue" -> rows[i].pvalue
                    [] c = "qvalue_global" -> QValue(rows[i].pvalue, pooled)
                    [] c = "qvalue_rna" -> QValue(rows[i].pvalue, own)]]]

StatFrame(stats, rna) ==
    [cols |-> {"pvalue", "qvalue_global", "qvalue_rna"},
     rows |-> StatRows(stats[rna], Pooled(stats, DictOrder(stats)), NonNaN(stats[rna]))]

\* estimate_significance: [ok, pixels, flag]; flag says whether line 64 was
\* reached. The three columns are written one batch after the other, so a
\* batch that raises leaves the columns of the batches before it.
\* a failure that has set the flag already
RaisedFlagged(w) == [ok |-> FALSE, pixels |-> w.pixels, flag |-> TRUE]
Raised(w) == [ok |-> FALSE, pixels |-> w.pixels, flag |-> FALSE]

AfterQvalueRna(w) ==
    IF w.ok THEN [ok |-> TRUE, pixels |-> w.pixels, flag |-> TRUE] ELSE Raised(w)

AfterQvalueGlobal(w, total_stats, sch) ==
    IF w.ok
    THEN AfterQvalueRna(write_pixels_column_batch(w.pixels, "qvalue_rna", total_stats, sch))
    ELSE Raised(w)

AfterPvalue(w, total_stats, sch) ==
    IF w.ok
    THEN AfterQvalueGlobal(write_pixels_column_batch(w.pixels, "qvalue_global", total_stats, sch),
                           total_stats, sch)
    ELSE Raised(w)

WriteStats(pixels, total_stats, sch) ==
    AfterPvalue(write_pixels_column_batch(pixels, "pvalue", total_stats, sch), total_stats, sch)

Correct(pixels, calc, sch) ==
    IF ~calc.ok THEN [ok |-> FALSE, pixels |-> pixels, flag |-> FALSE]
    ELSE IF \E r \in DOMAIN calc.stats : MultipletestsRaises(NonNaN(calc.stats[r]))
    THEN [ok |-> FALSE, pixels |-> pixels, flag |-> FALSE]
    ELSE IF DOMAIN calc.stats = {}                  \* pd.concat of an empty list
    THEN [ok |-> FALSE, pixels |-> pixels, flag |-> FALSE]
    ELSE WriteStats(pixels, [r \in DOMAIN calc.stats |-> StatFrame(calc.stats, r)], sch)

estimate_significance(pixels, sch) == Correct(pixels, _calculate_pvals(pixels), sch)

(***************************************************************************)
(* The descriptors of a store's root attributes                             *)
(***************************************************************************)
\* StatusProperty.__set__: value is what the caller assigns ("True", "False"
\* or something that is no boolean); [ok, attr, cache]
StatusSet(old, value) ==
    IF value \notin {"True", "False"}
    THEN [ok |-> FALSE, attr |-> old.attr, cache |-> old.cache]
    ELSE [ok |-> TRUE, attr |-> (value = "True"), cache |-> value]

\* StatusProperty.__get__: the cached value, or else the attribute of the file
StatusGet(attr, cache) ==
    IF cache # "None" THEN [value |-> (cache = "True"), cache |-> cache]
    ELSE [value |-> attr, cache |-> IF attr THEN "True" ELSE "False"]

\* a setter that skips the membership test of VersionProperty.__set__
VersionSetUnchecked(old, value, supported) ==
    [ok |-> TRUE, attr |-> value, cache |-> value]

\* VersionProperty.__set__
VersionSet(old, value, supported) ==
    IF value \notin supported
    THEN [ok |-> FALSE, attr |-> old.attr, cache |-> old.cache]
    ELSE [ok |-> TRUE, attr |-> value, cache |-> value]

\* VersionProperty.__get__: raises on a version of the file that is not supported
VersionGet(attr, cache, supported) ==
    IF cache # "None" THEN [ok |-> TRUE, value |-> cache, cache |-> cache]
    ELSE IF attr \in supported THEN [ok |-> TRUE, value |-> attr, cache |-> attr]
    ELSE [ok |-> FALSE, value |-> attr, cache |-> "None"]

(***************************************************************************)
(* Rdc, the pixel store                                                     *)
(***************************************************************************)
NoSizes == [given |-> FALSE, sizes |-> EmptyFn]
Sizes(n) == [given |-> TRUE, sizes |-> [c \in Chroms |-> n]]
OldSizes == Sizes(2 + 2)
NewSizes == Sizes(2 + 3)

NoRdcFile ==
    [exists |-> FALSE, is_scaling_fitted |-> FALSE, are_peaks_estimated |-> FALSE,
     version |-> "none", chrom_sizes |-> NoChromSizes, pixels |-> NoPixels]

\* a file an earlier session (or another release) left
OldRdcFile(ver) ==
    [exists |-> TRUE, is_scaling_fitted |-> FALSE, are_peaks_estimated |-> FALSE,
     version |-> ver, chrom_sizes |-> [present |-> TRUE, sizes |-> OldSizes.sizes],
     pixels |-> NoPixels]

NoRdcObj ==
    [open |-> FALSE, is_scaling_fitted |-> "None", are_peaks_estimated |-> "None",
     version |-> "None", pixels_cols |-> "None", chromsizes |-> NoSizes,
     annotation |-> [given |-> FALSE, names |-> {}]]

\* Rdc._write_chromsizes: the group is deleted and created again
WriteChromsizes(file, sizes) ==
    [file EXCEPT !.chrom_sizes = [present |-> TRUE, sizes |-> sizes]]

\* a constructor that runs the assignments of a new file on every open
RdcInitAlways(file, chromsizes) ==
    [ok |-> TRUE,
     file |-> [file EXCEPT !.exists = TRUE, !.is_scaling_fitted = FALSE,
                           !.are_peaks_estimated = FALSE, !.version = "1.1"],
     obj |-> [open |-> TRUE, is_scaling_fitted |-> "None", are_peaks_estimated |-> "None",
              version |-> "1.1", pixels_cols |-> "1.1", chromsizes |-> chromsizes,
              annotation |-> [given |-> FALSE, names |-> {}]]]

\* Rdc.__init__: [ok, file, obj]; when it raises there is no object
RdcInit(file, chromsizes) ==
    LET created ==
            IF file.exists THEN file
            ELSE [NoRdcFile EXCEPT !.exists = TRUE,
                                   !.is_scaling_fitted = StatusSet([attr |-> FALSE, cache |-> "None"], "False").attr,
                                   !.are_peaks_estimated = StatusSet([attr |-> FALSE, cache |-> "None"], "False").attr,
                                   !.version = VersionSet([attr |-> "none", cache |-> "None"], "1.1", RdcSupported).attr]
        sized == IF chromsizes.given THEN WriteChromsizes(created, chromsizes.sizes) ELSE created
        ver == VersionGet(sized.version, "None", RdcSupported)
    IN [ok |-> ver.ok,
        file |-> sized,
        obj |-> [open |-> TRUE, is_scaling_fitted |-> "None", are_peaks_estimated |-> "None",
                 version |-> ver.cache, pixels_cols |-> ver.value, chromsizes |-> chromsizes,
                 annotation |-> [given |-> FALSE, names |-> {}]]]

RdcSchema == pixels_cols_by_version(rdcObj.pixels_cols)

Using(store) == last.store \in {"none", store}

RdcOpen(chromsizes) ==
    /\ Using("rdc")
    /\ LET r == RdcInit(rdcFile, chromsizes)
       IN /\ rdcFile' = r.file
          /\ rdcObj' = IF r.ok THEN r.obj ELSE rdcObj
          /\ last' = [store |-> "rdc", op |-> "open", ok |-> r.ok, chromsizes |-> chromsizes]
    /\ UNCHANGED <<dnaFile, dnaObj>>

\* rdc.<flag> = value
RdcSetStatus(flag, value) ==
    /\ Using("rdc") /\ rdcObj.open
    /\ LET r == StatusSet([attr |-> rdcFile[flag], cache |-> rdcObj[flag]], value)
       IN /\ rdcFile' = [rdcFile EXCEPT ![flag] = r.attr]
          /\ rdcObj' = [rdcObj EXCEPT ![flag] = r.cache]
          /\ last' = [store |-> "rdc", op |-> "set_status", ok |-> r.ok, flag |-> flag,
                      value |-> value, was |-> rdcFile[flag]]
    /\ UNCHANGED <<dnaFile, dnaObj>>

\* rdc.version = value
RdcSetVersion(value) ==
    /\ Using("rdc") /\ rdcObj.open
    /\ LET r == VersionSet([attr |-> rdcFile.version, cache |-> rdcObj.version], value, RdcSupported)
       IN /\ rdcFile' = [rdcFile EXCEPT !.version = r.attr]
          /\ rdcObj' = [rdcObj EXCEPT !.version = r.cache]
          /\ last' = [store |-> "rdc", op |-> "set_version", ok |-> r.ok, value |-> value,
                      was |-> rdcFile.version]
    /\ UNCHANGED <<dnaFile, dnaObj>>

\* rdc.chromsizes = chromdict
RdcSetChromsizes(chromsizes) ==
    /\ Using("rdc") /\ rdcObj.open
    /\ rdcFile' = WriteChromsizes(rdcFile, chromsizes.sizes)
    /\ rdcObj' = [rdcObj EXCEPT !.chromsizes = chromsizes]
    /\ last' = [store |-> "rdc", op |-> "set_chromsizes", ok |-> TRUE]
    /\ UNCHANGED <<dnaFile, dnaObj>>

\* the names a reader finds under the group of an RNA
GroupNames(part, rna) ==
    IF part.present /\ rna \in DOMAIN part.g
    THEN [attrs |-> DOMAIN part.g[rna].attrs,
          chroms |-> DOMAIN part.g[rna].chroms,
          cols |-> UNION {DOMAIN part.g[rna].chroms[c] : c \in DOMAIN part.g[rna].chroms}]
    ELSE [attrs |-> {}, chroms |-> {}, cols |-> {}]

\* rdc.write_pixels(rna, tbl, GeneCoord(rna), attrs), args[rna] being the
\* (tbl, attrs) a caller may pass for the RNA
WritePixels(args) ==
    /\ Using("rdc") /\ rdcObj.open
    /\ \E rna \in RNAs : \E a \in args[rna] :
         LET w == _write_pixels(rdcFile.pixels, rna, a.tbl, GeneCoord(rna), a.attrs, RdcSchema)
         IN /\ rdcFile' = [rdcFile EXCEPT !.pixels = w.pixels]
            /\ last' = [store |-> "rdc", op |-> "write_pixels", ok |-> w.ok, rna |-> rna,
                        tbl |-> a.tbl, attrs |-> a.attrs, had |-> HasRna(rdcFile.pixels, rna),
                        old |-> GroupNames(rdcFile.pixels, rna)]
    /\ UNCHANGED <<rdcObj, dnaFile, dnaObj>>

WritePixelsBatch(batches) ==
    /\ Using("rdc") /\ rdcObj.open
    /\ \E data \in batches :
         LET w == write_pixels_batch(rdcFile.pixels, data, RdcSchema)
         IN /\ rdcFile' = [rdcFile EXCEPT !.pixels = w.pixels]
            /\ last' = [store |-> "rdc", op |-> "write_pixels_batch", ok |-> w.ok,
                        data |-> data, failed |-> w.failed]
    /\ UNCHANGED <<rdcObj, dnaFile, dnaObj>>

WritePixelsColumn(cols, frames) ==
    /\ Using("rdc") /\ rdcObj.open
    /\ \E rna \in RNAs, col \in cols, frame \in frames :
         LET w == _write_pixels_column(rdcFile.pixels, rna, col, frame, RdcSchema)
         IN /\ rdcFile' = [rdcFile EXCEPT !.pixels = w.pixels]
            /\ last' = [store |-> "rdc", op |-> "write_pixels_column", ok |-> w.ok,
                        rna |-> rna, col |-> col, frame |-> frame,
                        old |-> GroupNames(rdcFile.pixels, rna)]
    /\ UNCHANGED <<rdcObj, dnaFile, dnaObj>>

WritePixelsColumnBatch(cols, frames) ==
    /\ Using("rdc") /\ rdcObj.open
    /\ \E col \in cols, frame \in frames, rnas \in (SUBSET RNAs) \ {{}} :
         LET col_frames == [r \in rnas |-> frame]
             w == write_pixels_column_batch(rdcFile.pixels, col, col_frames, RdcSchema)
         IN /\ rdcFile' = [rdcFile EXCEPT !.pixels = w.pixels]
            /\ last' = [store |-> "rdc", op |-> "write_pixels_column_batch", ok |-> w.ok,
                        col |-> col, col_frames |-> col_frames]
    /\ UNCHANGED <<rdcObj, dnaFile, dnaObj>>

\* estimate_significance(rdc_data): the flag is assigned through the descriptor
EstimateSignificance ==
    /\ Using("rdc") /\ rdcObj.open
    /\ LET e == estimate_significance(rdcFile.pixels, RdcSchema)
           f == StatusSet([attr |-> rdcFile.are_peaks_estimated,
                           cache |-> rdcObj.are_peaks_estimated], "True")
       IN /\ rdcFile' = [rdcFile EXCEPT !.pixels = e.pixels,
                                        !.are_peaks_estimated = IF e.flag THEN f.attr ELSE @]
          /\ rdcObj' = [rdcObj EXCEPT !.are_peaks_estimated = IF e.flag THEN f.cache ELSE @]
          /\ last' = [store |-> "rdc", op |-> "estimate_significance", ok |-> e.ok]
    /\ UNCHANGED <<dnaFile, dnaObj>>

\* Rdc.write_rna_attribute_batch: only the RNAs that have a group get the value
write_rna_attribute_batch(pixels, attrname, data) ==
    IF ~pixels.present THEN [ok |-> FALSE, pixels |-> pixels]
    ELSE [ok |-> TRUE,
          pixels |-> [pixels EXCEPT !.g =
             [r \in DOMAIN pixels.g |->
                IF r \in DOMAIN data
                THEN [pixels.g[r] EXCEPT !.attrs =
                        [a \in (DOMAIN pixels.g[r].attrs) \cup {attrname} |->
                           IF a = attrname THEN data[r] ELSE pixels.g[r].attrs[a]]]
                ELSE pixels.g[r]]]]

\* Rdc.write_scaling_batch: the t, c and k of every spline, one batch each
write_scaling_batch(pixels, splines) ==
    LET w1 == write_rna_attribute_batch(pixels, "scaling_spline_t", [r \in DOMAIN splines |-> splines[r].t])
        w2 == write_rna_attribute_batch(w1.pixels, "scaling_spline_c", [r \in DOMAIN splines |-> splines[r].c])
        w3 == write_rna_attribute_batch(w2.pixels, "scaling_spline_k", [r \in DOMAIN splines |-> splines[r].k])
    IN IF w1.ok THEN w3 ELSE w1

SplineResult == [t |-> 1, c |-> 2, k |-> 3]

WriteScalingBatch(rnaSets) ==
    /\ Using("rdc") /\ rdcObj.open
    /\ \E rnas \in rnaSets :
         LET w == write_scaling_batch(rdcFile.pixels, [r \in rnas |-> SplineResult])
         IN /\ rdcFile' = [rdcFile EXCEPT !.pixels = w.pixels]
            /\ last' = [store |-> "rdc", op |-> "write_scaling_batch", ok |-> w.ok, rnas |-> rnas]
    /\ UNCHANGED <<rdcObj, dnaFile, dnaObj>>

(***************************************************************************)
(* DnaDataset, the raw-contact store                                        *)
(***************************************************************************)
NoDnaParts == [present |-> FALSE, g |-> EmptyFn]
NoAnnotation == [given |-> FALSE, names |-> {}]
Annotation(names) == [given |-> TRUE, names |-> names]

NoDnaFile ==
    [exists |-> FALSE, are_binsizes_selected |-> FALSE, version |-> "none",
     chrom_sizes |-> NoChromSizes, dna_parts |-> NoDnaParts]

OldDnaFile(ver) ==
    [exists |-> TRUE, are_binsizes_selected |-> FALSE, version |-> ver,
     chrom_sizes |-> [present |-> TRUE, sizes |-> OldSizes.sizes], dna_parts |-> NoDnaParts]

NoDnaObj ==
    [open |-> FALSE, are_binsizes_selected |-> "None", version |-> "None",
     chromsizes |-> NoSizes, annotation |-> NoAnnotation]

\* a constructor that writes the chromosome sizes before it looks at the
\* version, the order of Rdc.__init__
DnaInitSizesFirst(file, chromsizes, annotation) ==
    [ok |-> ~file.exists \/ file.version \in DnaSupported,
     file |-> [file EXCEPT !.exists = TRUE,
                           !.version = IF file.exists THEN @ ELSE "1",
                           !.chrom_sizes = IF chromsizes.given
                                           THEN [present |-> TRUE, sizes |-> chromsizes.sizes]
                                           ELSE @],
     obj |-> [open |-> TRUE, are_binsizes_selected |-> "None", version |-> "1",
              chromsizes |-> chromsizes, annotation |-> annotation],
     touched |-> IF chromsizes.given THEN {"chrom_sizes"} ELSE {}]

\* DnaDataset.__init__: [ok, file, obj, touched]; touched names the groups of
\* the file that the constructor read or wrote
DnaInit(file, chromsizes, annotation) ==
    LET created ==
            IF file.exists THEN file
            ELSE [NoDnaFile EXCEPT !.exists = TRUE,
                                   !.are_binsizes_selected = StatusSet([attr |-> FALSE, cache |-> "None"], "False").attr,
                                   !.version = VersionSet([attr |-> "none", cache |-> "None"], "1", DnaSupported).attr]
        ver == VersionGet(created.version, "None", DnaSupported)
        sized == IF chromsizes.given THEN WriteChromsizes(created, chromsizes.sizes) ELSE created
    IN IF ~ver.ok THEN [ok |-> FALSE, file |-> created, obj |-> NoDnaObj, touched |-> {}]
       ELSE [ok |-> TRUE,
             file |-> sized,
             obj |-> [open |-> TRUE, are_binsizes_selected |-> "None", version |-> ver.cache,
                      chromsizes |-> chromsizes, annotation |-> annotation],
             touched |-> IF chromsizes.given THEN {"chrom_sizes"} ELSE {}]

\* contact tables: a row is [name, chrom, v], v holding start and end
DnaCols == <<"start", "end">>
DnaRowKinds == {<<"r1", "c1">>, <<"r1", "c2">>, <<"r2", "c1">>}
\* variant "obj" holds a non-numeric object in the end of its last row
DnaCell(col, i, n, variant) ==
    IF variant = "obj" /\ i = n /\ col = "end" THEN NotANumber
    ELSE IF col = "start" THEN (i - 1) * Scale ELSE i * Scale

MkDnaFrame(ks, variant) ==
    [i \in DOMAIN ks |->
        [name |-> ks[i][1], chrom |-> ks[i][2],
         v |-> [c \in Range(DnaCols) |-> DnaCell(c, i, Len(ks), variant)]]]

DnaFrames ==
    {MkDnaFrame(ks, "ok") : ks \in SeqsUpTo(DnaRowKinds, MaxRows)}
      \cup {MkDnaFrame([i \in 1..MaxRows |-> <<"r1", ChromOrder[2 - (i % 2)]>>], "obj")}

PartsOf(frame, rna) == SelectSeq(frame, LAMBDA r : r.name = rna)
PartsOn(parts, c) == SelectSeq(parts, LAMBDA r : r.chrom = c)
PartChroms(parts) == {parts[i].chrom : i \in DOMAIN parts}
\* the names a contact table may carry, in the order groupby sorts them
GroupbyOrder == <<"r/1", "r1", "r2", "r_1">>
FrameRnas(frame) == SelectSeq(GroupbyOrder, LAMBDA r : \E i \in DOMAIN frame : frame[i].name = r)

\* the annotation property: the dict the object holds, or else the gene
\* coordinates of the RNA groups of the file
DnaAnnotation(file, obj) ==
    IF obj.annotation.given THEN [ok |-> TRUE, names |-> obj.annotation.names]
    ELSE IF ~file.dna_parts.present THEN [ok |-> FALSE, names |-> {}]
    ELSE [ok |-> TRUE, names |-> DOMAIN file.dna_parts.g]

\* the datasets of one chromosome group: both columns go through
\* astype('int64') before either dataset is created, so a cell that cannot be
\* converted leaves the chromosome group without datasets
DnaBadCols(parts, c) ==
    {i \in DOMAIN DnaCols :
        \E j \in DOMAIN parts : parts[j].chrom = c /\ ~CanCast("int64", parts[j].v[DnaCols[i]])}

DnaStored(rs, cols) ==
    [col \in cols |-> [i \in DOMAIN rs |-> AsType("int64", rs[i].v[col])]]

DnaChromDatasets(parts, c) ==
    DnaStored(PartsOn(parts, c), IF DnaBadCols(parts, c) = {} THEN Range(DnaCols) ELSE {})

\* DnaDataset._write_dna_parts: [ok, dna_parts]. The annotation is looked up
\* before the file is touched; then the group is deleted and written again.
_write_dna_parts(dna_parts, names, rna, parts) ==
    IF ~names.ok \/ rna \notin names.names THEN [ok |-> FALSE, dna_parts |-> dna_parts]
    ELSE LET bad == {j \in DOMAIN ChromOrder :
                        ChromOrder[j] \in PartChroms(parts) /\ DnaBadCols(parts, ChromOrder[j]) # {}}
             cs == {c \in PartChroms(parts) : bad = {} \/ PosIn(ChromOrder, c) <= SetMin(bad)}
             group == [attrs |-> [a \in {"start", "end", "total_contacts"} |->
                                    IF a = "total_contacts" THEN Len(parts) ELSE GeneCoord(rna)[a]],
                       chrom |-> GeneCoord(rna).chrom,
                       chroms |-> [c \in cs |-> DnaChromDatasets(parts, c)]]
         IN [ok |-> bad = {},
             dna_parts |-> [present |-> TRUE,
                            g |-> [r \in (DOMAIN dna_parts.g) \cup {rna} |->
                                     IF r = rna THEN group ELSE dna_parts.g[r]]]]

\* DnaDataset.write_dna_parts calls self._write_dna_parts_single, a method the
\* class does not define: the call raises AttributeError with the file open
write_dna_parts(dna_parts, names, rna, parts) ==
    [ok |-> FALSE, dna_parts |-> dna_parts]

\* DnaDataset.write_dna_parts_batch: one _write_dna_parts per RNA name of the
\* frame, in groupby order; the first that raises ends the batch. The
\* annotation is read once, by the first _write_dna_parts, and then cached.
RECURSIVE DnaBatch(_, _, _, _)
DnaBatch(dna_parts, names, order, frame) ==
    IF order = <<>> THEN [ok |-> TRUE, dna_parts |-> dna_parts, failed |-> "none"]
    ELSE LET w == _write_dna_parts(dna_parts, names, Head(order), PartsOf(frame, Head(order)))
         IN IF w.ok THEN DnaBatch(w.dna_parts, names, Tail(order), frame)
            ELSE [ok |-> FALSE, dna_parts |-> w.dna_parts, failed |-> Head(order)]

write_dna_parts_batch(file, obj, frame) ==
    LET names == DnaAnnotation(file, obj)
        w == DnaBatch(file.dna_parts, names, FrameRnas(frame), frame)
    IN [ok |-> w.ok, dna_parts |-> w.dna_parts, failed |-> w.failed,
        annotation |-> IF frame # <<>> /\ names.ok THEN Annotation(names.names)
                       ELSE obj.annotation]

\* DnaDataset._read_dna_parts: [ok, rows], the chromosome groups in name order
RECURSIVE DnaConcat(_, _)
DnaConcat(group, cs) ==
    IF cs = <<>> THEN <<>>
    ELSE LET cg == group.chroms[Head(cs)]
         IN [i \in 1..Len(cg["start"]) |->
               [chrom |-> Head(cs),
                v |-> [c \in {"start", "end"} |-> FromStored("int64", cg[c][i])]]]
              \o DnaConcat(group, Tail(cs))

_read_dna_parts(dna_parts, rna) ==
    IF ~dna_parts.present \/ rna \notin DOMAIN dna_parts.g THEN [ok |-> FALSE, rows |-> <<>>]
    ELSE LET group == dna_parts.g[rna]
             cs == SelectSeq(ChromOrder, LAMBDA c : c \in DOMAIN group.chroms)
         IN IF cs = <<>> THEN [ok |-> FALSE, rows |-> <<>>]    \* pd.concat of an empty list
            ELSE IF \E i \in DOMAIN cs : {"start", "end"} \ DOMAIN group.chroms[cs[i]] # {}
                 THEN [ok |-> FALSE, rows |-> <<>>]
            ELSE [ok |-> TRUE, rows |-> DnaConcat(group, cs)]

DnaOpen(chromsizes, annotation) ==
    /\ Using("dna")
    /\ LET r == DnaInit(dnaFile, chromsizes, annotation)
       IN /\ dnaFile' = r.file
          /\ dnaObj' = IF r.ok THEN r.obj ELSE dnaObj
          /\ last' = [store |-> "dna", op |-> "open", ok |-> r.ok, chromsizes |-> chromsizes,
                      touched |-> r.touched]
    /\ UNCHANGED <<rdcFile, rdcObj>>

\* dataset.are_binsizes_selected = value
DnaSetStatus(value) ==
    /\ Using("dna") /\ dnaObj.open
    /\ LET r == StatusSet([attr |-> dnaFile.are_binsizes_selected,
                           cache |-> dnaObj.are_binsizes_selected], value)
       IN /\ dnaFile' = [dnaFile EXCEPT !.are_binsizes_selected = r.attr]
          /\ dnaObj' = [dnaObj EXCEPT !.are_binsizes_selected = r.cache]
          /\ last' = [store |-> "dna", op |-> "set_status", ok |-> r.ok,
                      flag |-> "are_binsizes_selected", value |-> value,
                      was |-> dnaFile.are_binsizes_selected]
    /\ UNCHANGED <<rdcFile, rdcObj>>

\* dataset.version = value
DnaSetVersion(value) ==
    /\ Using("dna") /\ dnaObj.open
    /\ LET r == VersionSet([attr |-> dnaFile.version, cache |-> dnaObj.version], value, DnaSupported)
       IN /\ dnaFile' = [dnaFile EXCEPT !.version = r.attr]
          /\ dnaObj' = [dnaObj EXCEPT !.version = r.cache]
          /\ last' = [store |-> "dna", op |-> "set_version", ok |-> r.ok, value |-> value,
                      was |-> dnaFile.version]
    /\ UNCHANGED <<rdcFile, rdcObj>>

\* dataset.annotation = annotation_dict
DnaSetAnnotation(annotation) ==
    /\ Using("dna") /\ dnaObj.open
    /\ dnaObj' = [dnaObj EXCEPT !.annotation = annotation]
    /\ last' = [store |-> "dna", op |-> "set_annotation", ok |-> TRUE]
    /\ UNCHANGED <<rdcFile, rdcObj, dnaFile>>

WriteDnaParts(frames) ==
    /\ Using("dna") /\ dnaObj.open
    /\ \E rna \in RNAs, frame \in frames :
         LET w == write_dna_parts(dnaFile.dna_parts, DnaAnnotation(dnaFile, dnaObj), rna, frame)
         IN /\ dnaFile' = [dnaFile EXCEPT !.dna_parts = w.dna_parts]
            /\ last' = [store |-> "dna", op |-> "write_dna_parts", ok |-> w.ok, rna |-> rna,
                        parts |-> frame]
    /\ UNCHANGED <<rdcFile, rdcObj, dnaObj>>

WriteDnaPartsBatch(frames) ==
    /\ Using("dna") /\ dnaObj.open
    /\ \E frame \in frames :
         LET w == write_dna_parts_batch(dnaFile, dnaObj, frame)
         IN /\ dnaFile' = [dnaFile EXCEPT !.dna_parts = w.dna_parts]
            /\ dnaObj' = [dnaObj EXCEPT !.annotation = w.annotation]
            /\ last' = [store |-> "dna", op |-> "write_dna_parts_batch", ok |-> w.ok,
                        frame |-> frame, failed |-> w.failed,
                        had |-> {r \in RNAs : r \in DOMAIN dnaFile.dna_parts.g},
                        old |-> [r \in RNAs |-> GroupNames(dnaFile.dna_parts, r)]]
    /\ UNCHANGED <<rdcFile, rdcObj>>

(***************************************************************************)
(* Ingestion (bardic/utils/dnadataset.py): a table is a sequence of rows   *)
(* [name, chrom, v], v holding start and end in ticks                       *)
(***************************************************************************)
\* the characters of the names the tables carry
NameChars(name) ==
    CASE name = "r/1" -> <<"r", "/", "1">>
      [] name = "r_1" -> <<"r", "_", "1">>
      [] name = "r1" -> <<"r", "1">>
      [] name = "r2" -> <<"r", "2">>

\* str.replace(old, new)
replace(name, old, new) ==
    LET chars == [i \in DOMAIN NameChars(name) |->
                    IF NameChars(name)[i] = old THEN new ELSE NameChars(name)[i]]
    IN CHOOSE n \in Range(GroupbyOrder) : NameChars(n) = chars

\* a test that takes every table for a bedframe
AnyFrame(frame) == TRUE

\* bioframe.is_bedframe: the columns are there (they are, in a row of the
\* model) and no interval ends before it starts
is_bedframe(frame) == \A i \in DOMAIN frame : frame[i].v["start"] <= frame[i].v["end"]

\* Series.unique(): the values in order of first appearance
RECURSIVE Unique(_)
Unique(s) ==
    IF s = <<>> THEN <<>>
    ELSE LET u == Unique(SubSeq(s, 1, Len(s) - 1))
         IN IF s[Len(s)] \in Range(u) THEN u ELSE Append(u, s[Len(s)])

FrameNames(frame) == [i \in DOMAIN frame |-> frame[i].name]

\* the body of the loop over the RNA names: a name with '/' is rewritten in
\* the table, and in a contact table the rows of a name the annotation does
\* not hold are dropped
NameStep(frame, rna_name, annotation, type) ==
    LET new_name == IF "/" \in Range(NameChars(rna_name)) THEN replace(rna_name, "/", "_")
                    ELSE rna_name
        renamed == [i \in DOMAIN frame |->
                      IF frame[i].name = rna_name THEN [frame[i] EXCEPT !.name = new_name]
                      ELSE frame[i]]
    IN IF type = "dna_frame" /\ new_name \notin Range(FrameNames(annotation))
       THEN SelectSeq(renamed, LAMBDA r : r.name # new_name)
       ELSE renamed

RECURSIVE NameLoop(_, _, _, _)
NameLoop(frame, names, annotation, type) ==
    IF names = <<>> THEN frame
    ELSE NameLoop(NameStep(frame, Head(names), annotation, type), Tail(names), annotation, type)

\* the loop over the chromosome names
KnownChroms(frame, chromsizes_dict) ==
    SelectSeq(frame, LAMBDA r : r.chrom \in DOMAIN chromsizes_dict)

\* a cleaning that drops no row
CleanNothing(dna_frame, chromsizes_dict) == dna_frame

clean_dna_frame(dna_frame, chromsizes_dict) ==
    LET ended == SelectSeq(dna_frame,
                           LAMBDA r : ~(r.v["end"] > chromsizes_dict[r.chrom] * Scale))
    IN SelectSeq(ended, LAMBDA r : ~(r.v["start"] < 0))

\* validate_dna_frame: [ok, frame]; it raises on a table that is no bedframe
validate_dna_frame(dna_frame, chromsizes_dict, annotation, type) ==
    IF ~is_bedframe(dna_frame) THEN [ok |-> FALSE, frame |-> dna_frame]
    ELSE [ok |-> TRUE,
          frame |-> clean_dna_frame(
                        KnownChroms(NameLoop(dna_frame, Unique(FrameNames(dna_frame)),
                                             annotation, type),
                                    chromsizes_dict),
                        chromsizes_dict)]

\* check_duplicate_rna_names: the first row of every name stays
check_duplicate_rna_names(dna_frame) ==
    LET first == {i \in DOMAIN dna_frame : \A j \in 1..(i - 1) : dna_frame[j].name # dna_frame[i].name}
    IN [k \in 1..Cardinality(first) |->
          dna_frame[CHOOSE i \in first : Cardinality({j \in first : j <= i}) = k]]

\* annotation_to_dict: the names are the keys of the dict
annotation_to_dict(annotation_df) == Range(FrameNames(annotation_df))

\* bed2h5: [ok, file, obj, annotation_df, refined], the tables as they are
\* when the function returns or raises
bed2h5(file, chromsizes, annotation_df, dna_frame) ==
    LET a == validate_dna_frame(annotation_df, chromsizes.sizes, <<>>, "annotation")
        deduped == check_duplicate_rna_names(a.frame)
        r == validate_dna_frame(dna_frame, chromsizes.sizes, deduped, "dna_frame")
        present_rnas == Range(FrameNames(r.frame))
        refined_annotation == {n \in annotation_to_dict(deduped) : n \in present_rnas}
        dataset == DnaInit(file, chromsizes, Annotation(refined_annotation))
        w == write_dna_parts_batch(dataset.file, dataset.obj, r.frame)
    IN IF ~a.ok THEN [ok |-> FALSE, file |-> file, obj |-> NoDnaObj,
                      annotation_df |-> annotation_df, refined |-> <<>>]
       ELSE IF ~r.ok THEN [ok |-> FALSE, file |-> file, obj |-> NoDnaObj,
                           annotation_df |-> deduped, refined |-> <<>>]
       ELSE IF ~dataset.ok THEN [ok |-> FALSE, file |-> dataset.file, obj |-> NoDnaObj,
                                 annotation_df |-> deduped, refined |-> r.frame]
       ELSE [ok |-> w.ok,
             file |-> [dataset.file EXCEPT !.dna_parts = w.dna_parts],
             obj |-> [dataset.obj EXCEPT !.annotation = w.annotation],
             annotation_df |-> deduped, refined |-> r.frame]

(***************************************************************************)
(* Binning (bardic/binops.py): edges are sequences of integers; a function *)
(* that raises returns ok = FALSE                                          *)
(***************************************************************************)
\* longest span (chromosome, or arm beside a gene) handed to a binning function
MaxLength == 24
\* largest start size of the geometric bins
MaxStartSize == 3
\* largest width of a linear bin
MaxLinearSize == 8
\* factors of the geometric progression: 0 is refused; no odd power of 2 or 3
\* is a square, so the rounding of final_index never meets a tie
Factors == 0..3
Lengths == 0..MaxLength
StartSizes == 1..MaxStartSize
LinearSizes == 1..MaxLinearSize

\* np.arange(start, stop, step) and range(start, stop, step), step > 0
RECURSIVE Arange(_, _, _)
Arange(start, stop, step) ==
    IF start >= stop THEN <<>> ELSE <<start>> \o Arange(start + step, stop, step)

\* a[-1] = x: IndexError when a has no element
SetLast(a, x) ==
    IF Len(a) = 0 THEN [ok |-> FALSE, edges |-> a]
    ELSE [ok |-> TRUE, edges |-> [a EXCEPT ![Len(a)] = x]]

\* np.diff
Diff(a) == [i \in 1..(Len(a) - 1) |-> a[i + 1] - a[i]]

RECURSIVE SumTo(_, _)
SumTo(a, n) == IF n = 0 THEN 0 ELSE a[n] + SumTo(a, n - 1)

\* np.cumsum
CumSum(a) == [i \in 1..Len(a) |-> SumTo(a, i)]

RECURSIVE GCD(_, _)
GCD(a, b) == IF b = 0 THEN a ELSE GCD(b, a % b)

\* the integer k >= from nearest to log(num / den) / log(factor) - 1:
\* factor^(k + 1/2) <= num / den < factor^(k + 3/2), compared after squaring
RECURSIVE Nearest(_, _, _, _)
Nearest(from, num, den, factor) ==
    IF num * num < Pow(factor, 2 * from + 3) * den * den THEN from
    ELSE Nearest(from + 1, num, den, factor)

\* round(np.log(1 - length * (1 - factor) / start_size) / np.log(factor) - 1),
\* factor > 1; the logarithm is not negative, so the result is at least -1
final_index(length, start_size, factor) ==
    Nearest(0 - 1,
            (start_size + length * (factor - 1)) \div GCD(start_size, length * (factor - 1)),
            start_size \div GCD(start_size, length * (factor - 1)),
            factor)

GeomSizes(start_size, factor, n) == [i \in 1..n |-> start_size * Pow(factor, i - 1)]

make_geom_bins(length, start_size, factor) ==
    IF factor < 1 THEN [ok |-> FALSE, edges |-> <<>>]
    ELSE IF factor = 1 THEN SetLast(Arange(0, length, start_size), length)
    ELSE SetLast(<<0>> \o CumSum(GeomSizes(start_size, factor,
                                           final_index(length, start_size, factor) + 1)),
                 length)

\* geom_bins[:np.sum(np.diff(geom_bins) <= max_linear_size) + 1]
ScaledBins(geom_bins, max_linear_size) ==
    SubSeq(geom_bins, 1,
           Cardinality({i \in 1..(Len(geom_bins) - 1) :
                           Diff(geom_bins)[i] <= max_linear_size}) + 1)

\* the else branch of prune_geom_bins
Linearised(scaled_bins, linear_bins) ==
    [ok |-> linear_bins.ok,
     edges |-> IF linear_bins.ok THEN scaled_bins \o Tail(linear_bins.edges) ELSE scaled_bins]

\* geom_bins has at least one edge (it comes from make_geom_bins)
prune_geom_bins(geom_bins, max_linear_size) ==
    IF Len(ScaledBins(geom_bins, max_linear_size)) = Len(geom_bins)
    THEN [ok |-> TRUE, edges |-> geom_bins]
    ELSE Linearised(ScaledBins(geom_bins, max_linear_size),
                    SetLast(Arange(ScaledBins(geom_bins, max_linear_size)
                                      [Len(ScaledBins(geom_bins, max_linear_size))],
                                   geom_bins[Len(geom_bins)], max_linear_size),
                            geom_bins[Len(geom_bins)]))

\* break_points[:-1] and break_points[1:]
ButLast(a) == SubSeq(a, 1, Len(a) - 1)

\* a binning that leaves the span after the last break point without a bin
ChromBinsCut(starts, ends, length) ==
    IF Len(starts) = 0 THEN [starts |-> <<0>>, ends |-> <<length>>]
    ELSE [starts |-> starts, ends |-> ends]

\* the starts and ends of one chromosome in make_linear_bins
ChromBins(starts, ends, length) ==
    IF Len(starts) = 0 THEN [starts |-> <<0>>, ends |-> <<length>>]
    ELSE IF ends[Len(ends)] < length
         THEN [starts |-> Append(starts, ends[Len(ends)]), ends |-> Append(ends, length)]
         ELSE [starts |-> starts, ends |-> ends]

\* make_linear_bins: per chromosome, the bins as [starts, ends]; the rows of
\* the frame follow the order of the dict; bin_size is an integer, which
\* round() returns as it is
make_linear_bins(bin_size, chromsizes) ==
    [chrom \in DOMAIN chromsizes |->
        ChromBins(ButLast(Arange(0, chromsizes[chrom], bin_size)),
                  Tail(Arange(0, chromsizes[chrom], bin_size)),
                  chromsizes[chrom])]

\* a[::-1]
Reverse(a) == [i \in 1..Len(a) |-> a[Len(a) + 1 - i]]

\* the edges of one arm of the gene's chromosome: make_geom_bins, then
\* prune_geom_bins unless max_linear_size is None
ArmEdges(geom, max_linear_size) ==
    IF geom.ok /\ max_linear_size # None THEN prune_geom_bins(geom.edges, max_linear_size)
    ELSE geom

\* pd.DataFrame({'chrom': .., 'start': edges[:-1], 'end': edges[1:]})
EdgeFrame(chrom_name, edges) ==
    [i \in 1..(Len(edges) - 1) |-> [chrom |-> chrom_name, start |-> edges[i], end |-> edges[i + 1]]]

CisFrame(chrom_name, gene_start, gene_end, upstream, downstream, fillgene) ==
    [ok |-> upstream.ok /\ downstream.ok,
     upstream_edges |-> [i \in DOMAIN upstream.edges |-> gene_start - Reverse(upstream.edges)[i]],
     downstream_edges |-> [i \in DOMAIN downstream.edges |-> gene_end + downstream.edges[i]],
     bins |-> EdgeFrame(chrom_name,
                        [i \in DOMAIN upstream.edges |-> gene_start - Reverse(upstream.edges)[i]])
              \o (IF fillgene
                  THEN <<[chrom |-> chrom_name, start |-> gene_start, end |-> gene_end]>>
                  ELSE <<>>)
              \o EdgeFrame(chrom_name,
                           [i \in DOMAIN downstream.edges |-> gene_end + downstream.edges[i]])]

make_cis_bins(factor, start_size, chrom_name, chrom_length, gene_start, gene_end, max_linear_size, fillgene) ==
    IF factor < 1 THEN [ok |-> FALSE, upstream_edges |-> <<>>, downstream_edges |-> <<>>,
                        bins |-> <<>>]
    ELSE CisFrame(chrom_name, gene_start, gene_end,
                  ArmEdges(make_geom_bins(gene_start, start_size, factor), max_linear_size),
                  ArmEdges(make_geom_bins(chrom_length - gene_end, start_size, factor),
                           max_linear_size),
                  fillgene)

\* pd.concat of the chromosomes' frames, in the order of the dict
RECURSIVE LinearFrame(_, _)
LinearFrame(bins, order) ==
    IF Len(order) = 0 THEN <<>>
    ELSE [i \in DOMAIN bins[Head(order)].starts |->
             [chrom |-> Head(order), start |-> bins[Head(order)].starts[i],
              end |-> bins[Head(order)].ends[i]]]
         \o LinearFrame(bins, Tail(order))

\* make_trans_bins: the gene's chromosome is left out; pd.concat raises when no
\* chromosome is left
make_trans_bins(bin_size, chromsizes, gene_chrom) ==
    [ok |-> gene_chrom \in DOMAIN chromsizes /\ DOMAIN chromsizes # {gene_chrom},
     bins |-> LinearFrame(make_linear_bins(bin_size,
                              [c \in DOMAIN chromsizes \ {gene_chrom} |-> chromsizes[c]]),
                          SelectSeq(ChromOrder,
                                    LAMBDA c : c \in DOMAIN chromsizes \ {gene_chrom}))]

\* the intervals themselves, in place of their centres
WholeIntervals(intervals) == intervals

\* interval_centers
interval_centers(intervals) ==
    [i \in DOMAIN intervals |->
        [chrom |-> intervals[i].chrom,
         start |-> (intervals[i].end + intervals[i].start) \div 2,
         end |-> (intervals[i].end + intervals[i].start) \div 2 + 1]]

\* two intervals of one chromosome overlap
Overlap(a, b) == a.chrom = b.chrom /\ a.start < b.end /\ b.start < a.end

\* bf.count_overlaps, for one bin
calculate_bins_coverage(bin, contacts) ==
    Cardinality({i \in DOMAIN contacts : Overlap(bin, contacts[i])})

\* floats as fractions [n, d], d > 0 and n >= 0; 0/0 is NaN and n/0 is inf
NormFrac(n, d) ==
    IF d = 0 THEN [n |-> IF n = 0 THEN 0 ELSE 1, d |-> 0]
    ELSE [n |-> n \div GCD(n, d), d |-> d \div GCD(n, d)]
FracAdd(a, b) == NormFrac(a.n * b.d + b.n * a.d, a.d * b.d)
FracDiv(a, b) == NormFrac(a.n * b.d, a.d * b.n)
FracOne == NormFrac(1, 1)

RECURSIVE FracSum(_, _, _)
FracSum(rows, col, n) ==
    IF n = 0 THEN NormFrac(0, 1) ELSE FracAdd(rows[n][col], FracSum(rows, col, n - 1))

RECURSIVE IntSum(_, _, _)
IntSum(rows, col, n) == IF n = 0 THEN 0 ELSE rows[n][col] + IntSum(rows, col, n - 1)

\* the rows of bg_track that bf.overlap joins to a bin
BgRows(bin, bg_track) == {i \in DOMAIN bg_track : Overlap(bin, bg_track[i])}
SetMax(S) == CHOOSE x \in S : \A y \in S : x >= y
CountOver(bg_track, rows) ==
    IntSum([i \in 1..Len(bg_track) |->
               [count |-> IF i \in rows THEN bg_track[i].count ELSE 0]], "count", Len(bg_track))

\* rescaled_bg_counts of one bin: the counts of the joined rows, over the span
\* they cover, times the width of the bin
RescaledBg(bin, bg_track, rows) ==
    NormFrac(CountOver(bg_track, rows) * (bin.end - bin.start),
             SetMax({bg_track[i].end : i \in rows}) - SetMin({bg_track[i].start : i \in rows}))

\* a dropout that does not look at the signal
DropoutWithoutSignal(bin, contacts, bg_track, impute) ==
    impute /\ CountOver(bg_track, BgRows(bin, bg_track)) = 0

\* dropout: a bin with signal and no background
Dropout(bin, contacts, bg_track, impute) ==
    /\ impute
    /\ calculate_bins_coverage(bin, contacts) > 0
    /\ CountOver(bg_track, BgRows(bin, bg_track)) = 0

\* one row of bins_coverage before the probabilities
CoverageRow(bin, contacts, bg_track, impute, ivalue) ==
    [chrom |-> bin.chrom, start |-> bin.start, end |-> bin.end,
     signal_count |-> calculate_bins_coverage(bin, contacts),
     impute |-> Dropout(bin, contacts, bg_track, impute),
     bg_count |-> IF Dropout(bin, contacts, bg_track, impute)
                  THEN NormFrac((bin.end - bin.start) * ivalue, 1)
                  ELSE RescaledBg(bin, bg_track, BgRows(bin, bg_track))]

\* the two probability columns: each count over the sum of its column
WithProbs(rows, signal_sum, bg_sum) ==
    [i \in DOMAIN rows |->
        [chrom |-> rows[i].chrom, start |-> rows[i].start, end |-> rows[i].end,
         signal_count |-> rows[i].signal_count,
         signal_prob |-> FracDiv(NormFrac(rows[i].signal_count, 1), NormFrac(signal_sum, 1)),
         impute |-> rows[i].impute,
         bg_count |-> rows[i].bg_count,
         bg_prob |-> FracDiv(rows[i].bg_count, bg_sum)]]

SubtrackRows(rows) ==
    WithProbs(rows, IntSum(rows, "signal_count", Len(rows)), FracSum(rows, "bg_count", Len(rows)))

\* make_subtrack; a bin that no row of bg_track overlaps has NaN bounds, which
\* astype('int64') refuses
make_subtrack(bins_df, centers_df, bg_track, impute, ivalue) ==
    [ok |-> \A i \in DOMAIN bins_df : BgRows(bins_df[i], bg_track) # {},
     rows |-> IF \A i \in DOMAIN bins_df : BgRows(bins_df[i], bg_track) # {}
              THEN SubtrackRows([i \in DOMAIN bins_df |->
                                    CoverageRow(bins_df[i], centers_df, bg_track, impute, ivalue)])
              ELSE <<>>]

\* bf.sort_bedframe: by chromosome, then by start
RowBefore(a, b) ==
    \/ PosIn(ChromOrder, a.chrom) < PosIn(ChromOrder, b.chrom)
    \/ a.chrom = b.chrom /\ a.start <= b.start
SortedInsert(sorted, row) ==
    SubSeq(sorted, 1, Cardinality({i \in DOMAIN sorted : RowBefore(sorted[i], row)}))
    \o <<row>>
    \o SubSeq(sorted, Cardinality({i \in DOMAIN sorted : RowBefore(sorted[i], row)}) + 1,
              Len(sorted))
RECURSIVE sort_bedframe(_)
sort_bedframe(rows) ==
    IF Len(rows) = 0 THEN <<>>
    ELSE SortedInsert(sort_bedframe(ButLast(rows)), rows[Len(rows)])

\* coverage['raw_bg_prob'] = coverage['bg_prob']; coverage['scaling_factor'] = 1
Tracked(rows) ==
    [i \in DOMAIN rows |->
        [chrom |-> rows[i].chrom, start |-> rows[i].start, end |-> rows[i].end,
         signal_count |-> rows[i].signal_count, signal_prob |-> rows[i].signal_prob,
         impute |-> rows[i].impute, bg_count |-> rows[i].bg_count,
         bg_prob |-> rows[i].bg_prob, raw_bg_prob |-> rows[i].bg_prob,
         scaling_factor |-> 1]]

TotalTrack(trans_bins, trans_coverage, cis_bins, cis_coverage) ==
    [ok |-> trans_bins.ok /\ trans_coverage.ok /\ cis_bins.ok /\ cis_coverage.ok,
     rows |-> IF trans_bins.ok /\ trans_coverage.ok /\ cis_bins.ok /\ cis_coverage.ok
              THEN sort_bedframe(Tracked(trans_coverage.rows) \o Tracked(cis_coverage.rows))
              ELSE <<>>]

TrackOf(centers, bg_track, trans_bins, cis_bins, impute, ivalue) ==
    TotalTrack(trans_bins,
               make_subtrack(trans_bins.bins, centers, bg_track, impute, ivalue),
               cis_bins,
               make_subtrack(cis_bins.bins, centers, bg_track, impute, ivalue))

make_track(dna_contacts, bg_track, chromdict, gene_coord, rna_attrs, impute, ivalue) ==
    TrackOf(interval_centers(dna_contacts), bg_track,
            make_trans_bins(rna_attrs.trans_bin_size, chromdict, gene_coord.chrom),
            make_cis_bins(rna_attrs.cis_factor, rna_attrs.cis_start, gene_coord.chrom,
                          chromdict[gene_coord.chrom], gene_coord.start, gene_coord.end,
                          rna_attrs.trans_bin_size, FALSE),
            impute, ivalue)

(***************************************************************************)
(* Reading the peaks (bardic/utils/peaks.py)                                *)
(***************************************************************************)
\* Rdc.annotation: the cached dict, or else one entry per RNA group of the
\* file, which is then cached; only the names are kept here
RdcAnnotation(file, obj) ==
    IF obj.annotation.given THEN [ok |-> TRUE, cache |-> obj.annotation]
    ELSE IF ~file.pixels.present THEN [ok |-> FALSE, cache |-> obj.annotation]
    ELSE [ok |-> TRUE, cache |-> [given |-> TRUE, names |-> DOMAIN file.pixels.g]]

QvalueTypes == {"global", "rna"}
QvalueCol(qvalue_type) == IF qvalue_type = "global" THEN "qvalue_global" ELSE "qvalue_rna"

\* the columns of the frame read_pixels(rna_name) returns
FrameCols(pixels, rna) ==
    ReadFields(pixels.g[rna], AllFields, ReadChroms(pixels.g[rna], "None"))

\* rows of a frame as peaks: the q-value column renamed, the RNA name added
AsPeaks(rows, rna, col) ==
    [i \in DOMAIN rows |->
        [rna_name |-> rna, chrom |-> rows[i].chrom, start |-> rows[i].v["start"],
         qvalue |-> rows[i].v[col]]]

\* pixels.query('<col> < <threshold>'): a comparison with NaN is false
BelowThreshold(read, rna, col, threshold) ==
    [ok |-> TRUE,
     rows |-> SelectSeq(AsPeaks(read.rows, rna, col),
                        LAMBDA p : p.qvalue # NaN /\ p.qvalue < threshold)]

\* _fetch_peaks_single: the query raises when the frame lacks the column
_fetch_peaks_single(pixels, rna, threshold, qvalue_type) ==
    IF ~_read_pixels(pixels, rna, AllFields, "None").ok
          \/ qvalue_type \notin QvalueTypes
          \/ QvalueCol(qvalue_type) \notin FrameCols(pixels, rna)
    THEN [ok |-> FALSE, rows |-> <<>>]
    ELSE BelowThreshold(_read_pixels(pixels, rna, AllFields, "None"), rna,
                        QvalueCol(qvalue_type), threshold)

\* pd.concat(results, ignore_index=True) of the workers' frames, rna_names
\* being list(annotation.keys())
RECURSIVE ConcatResults(_, _)
ConcatResults(results, rna_names) ==
    IF rna_names = <<>> THEN <<>>
    ELSE results[Head(rna_names)].rows \o ConcatResults(results, Tail(rna_names))

Gathered(results, rna_names) ==
    IF rna_names = <<>> \/ \E i \in DOMAIN rna_names : ~results[rna_names[i]].ok
    THEN [ok |-> FALSE, rows |-> <<>>]
    ELSE [ok |-> TRUE, rows |-> ConcatResults(results, rna_names)]

\* fetch_peaks: [ok, rows, read, flag, annotation]; read says whether the
\* annotation was asked for, flag and annotation are the caches of the object
\* after the call
PeaksOf(pixels, names, threshold, qvalue_type) ==
    Gathered([r \in names |-> _fetch_peaks_single(pixels, r, threshold, qvalue_type)],
             SelectSeq(RnaOrder, LAMBDA r : r \in names))

FetchedPeaks(file, flag, annotation, threshold, qvalue_type) ==
    IF ~flag.value \/ qvalue_type \notin QvalueTypes
    THEN [ok |-> FALSE, rows |-> <<>>, read |-> FALSE, flag |-> flag.cache,
          annotation |-> annotation.cache]
    ELSE IF ~annotation.ok
    THEN [ok |-> FALSE, rows |-> <<>>, read |-> TRUE, flag |-> flag.cache,
          annotation |-> annotation.cache]
    ELSE [ok |-> PeaksOf(file.pixels, annotation.cache.names, threshold, qvalue_type).ok,
          rows |-> PeaksOf(file.pixels, annotation.cache.names, threshold, qvalue_type).rows,
          read |-> TRUE, flag |-> flag.cache, annotation |-> annotation.cache]

fetch_peaks(file, obj, threshold, qvalue_type) ==
    FetchedPeaks(file, StatusGet(file.are_peaks_estimated, obj.are_peaks_estimated),
                 RdcAnnotation(file, obj), threshold, qvalue_type)

FetchPeaks(threshold, qvalue_type) ==
    /\ Using("rdc") /\ rdcObj.open
    /\ rdcObj' = [rdcObj EXCEPT
                     !.are_peaks_estimated = fetch_peaks(rdcFile, rdcObj, threshold, qvalue_type).flag,
                     !.annotation = IF fetch_peaks(rdcFile, rdcObj, threshold, qvalue_type).read
                                    THEN fetch_peaks(rdcFile, rdcObj, threshold, qvalue_type).annotation
                                    ELSE @]
    /\ last' = [store |-> "rdc", op |-> "fetch_peaks",
                ok |-> fetch_peaks(rdcFile, rdcObj, threshold, qvalue_type).ok,
                threshold |-> threshold, qvalue_type |-> qvalue_type,
                read |-> fetch_peaks(rdcFile, rdcObj, threshold, qvalue_type).read,
                peaks |-> fetch_peaks(rdcFile, rdcObj, threshold, qvalue_type).rows]
    /\ UNCHANGED <<rdcFile, dnaFile, dnaObj>>

\* sort_values(by=qvalue_col, ascending=True); rows with equal q-values are
\* kept here in the order of the frame
InsertByQ(sorted, row) ==
    SubSeq(sorted, 1, Cardinality({i \in DOMAIN sorted : sorted[i].qvalue <= row.qvalue}))
    \o <<row>>
    \o SubSeq(sorted, Cardinality({i \in DOMAIN sorted : sorted[i].qvalue <= row.qvalue}) + 1,
              Len(sorted))
RECURSIVE SortByQ(_)
SortByQ(rows) ==
    IF Len(rows) = 0 THEN <<>> ELSE InsertByQ(SortByQ(ButLast(rows)), rows[Len(rows)])

\* pixels.dropna(subset=[qvalue_col])
DropNaN(rows) == SelectSeq(rows, LAMBDA p : p.qvalue # NaN)

\* .head(int(pixels.shape[0] * top_percent / 100)) of the sorted frame
TopRows(rows, top_percent) ==
    [ok |-> TRUE, rows |-> SubSeq(SortByQ(rows), 1, (Len(rows) * top_percent) \div 100)]

\* _fetch_top_percent_single: the column name is built from qvalue_type as it
\* is; dropna raises when the frame lacks the column
_fetch_top_percent_single(pixels, rna, qvalue_type, top_percent) ==
    IF ~_read_pixels(pixels, rna, AllFields, "None").ok
          \/ qvalue_type \notin QvalueTypes
          \/ QvalueCol(qvalue_type) \notin FrameCols(pixels, rna)
    THEN [ok |-> FALSE, rows |-> <<>>]
    ELSE TopRows(DropNaN(AsPeaks(_read_pixels(pixels, rna, AllFields, "None").rows, rna,
                                 QvalueCol(qvalue_type))),
                 top_percent)

TopOf(pixels, names, qvalue_type, top_percent) ==
    Gathered([r \in names |-> _fetch_top_percent_single(pixels, r, qvalue_type, top_percent)],
             SelectSeq(RnaOrder, LAMBDA r : r \in names))

FetchedTop(file, flag, annotation, qvalue_type, top_percent) ==
    IF ~flag.value
    THEN [ok |-> FALSE, rows |-> <<>>, read |-> FALSE, flag |-> flag.cache,
          annotation |-> annotation.cache]
    ELSE IF ~annotation.ok
    THEN [ok |-> FALSE, rows |-> <<>>, read |-> TRUE, flag |-> flag.cache,
          annotation |-> annotation.cache]
    ELSE [ok |-> TopOf(file.pixels, annotation.cache.names, qvalue_type, top_percent).ok,
          rows |-> TopOf(file.pixels, annotation.cache.names, qvalue_type, top_percent).rows,
          read |-> TRUE, flag |-> flag.cache, annotation |-> annotation.cache]

fetch_top_percent(file, obj, qvalue_type, top_percent) ==
    FetchedTop(file, StatusGet(file.are_peaks_estimated, obj.are_peaks_estimated),
               RdcAnnotation(file, obj), qvalue_type, top_percent)

FetchTopPercent(qvalue_type, top_percent) ==
    /\ Using("rdc") /\ rdcObj.open
    /\ rdcObj' = [rdcObj EXCEPT
                     !.are_peaks_estimated =
                         fetch_top_percent(rdcFile, rdcObj, qvalue_type, top_percent).flag,
                     !.annotation =
                         IF fetch_top_percent(rdcFile, rdcObj, qvalue_type, top_percent).read
                         THEN fetch_top_percent(rdcFile, rdcObj, qvalue_type, top_percent).annotation
                         ELSE @]
    /\ last' = [store |-> "rdc", op |-> "fetch_top_percent",
                ok |-> fetch_top_percent(rdcFile, rdcObj, qvalue_type, top_percent).ok,
                qvalue_type |-> qvalue_type, top_percent |-> top_percent,
                read |-> fetch_top_percent(rdcFile, rdcObj, qvalue_type, top_percent).read,
                peaks |-> fetch_top_percent(rdcFile, rdcObj, qvalue_type, top_percent).rows]
    /\ UNCHANGED <<rdcFile, dnaFile, dnaObj>>

(***************************************************************************)
(* Specifications                                                           *)
(*                                                                          *)
(* Reading (read_pixels, read_dna_parts, the property getters) opens the    *)
(* file read-only and changes nothing: it is the operators _read_pixels and *)
(* _read_dna_parts, evaluated on the state. A session works on one store.   *)
(***************************************************************************)
StatusInputs == {"True", "False", "2"}
VersionInputs == {"1", "1.1", "2"}
NoOp == [store |-> "none", op |-> "none", ok |-> TRUE]

\* a table of MaxRows bins that all hold signal, and one of bins that hold none
SignalRows == [i \in 1..MaxRows |-> [chrom |-> "c1", sc |-> 1]]
SilentRows == [i \in 1..MaxRows |-> [chrom |-> "c2", sc |-> 0]]
SignalTable == MkTable(BaseCols, SignalRows, "ok")
FirstAttrs == CHOOSE a \in AttrChoices : a.cis_factor # None
NoFactorAttrs == CHOOSE a \in AttrChoices : a.cis_factor = None
Each(x) == [r \in RNAs |-> x]
Args(tables, attrs) == {[tbl |-> t, attrs |-> a] : t \in tables, a \in attrs}

\* The life of the status flags of the two stores
InitStatus ==
    /\ rdcFile = NoRdcFile /\ rdcObj = NoRdcObj
    /\ dnaFile = NoDnaFile /\ dnaObj = NoDnaObj
    /\ last = NoOp

NextStatus ==
    \/ RdcOpen(NoSizes)
    \/ \E flag \in {"is_scaling_fitted", "are_peaks_estimated"}, v \in StatusInputs : RdcSetStatus(flag, v)
    \/ WritePixels(Each(Args({SignalTable, MkTable(BaseCols, SilentRows, "ok")}, {FirstAttrs})))
    \/ EstimateSignificance
    \/ DnaOpen(NoSizes, Annotation(RNAs))
    \/ \E v \in StatusInputs : DnaSetStatus(v)

SpecStatus == InitStatus /\ [][NextStatus]_vars

\* The life of the version attribute of the two stores
InitVersion ==
    /\ rdcFile \in {NoRdcFile, OldRdcFile("1"), OldRdcFile("2")} /\ rdcObj = NoRdcObj
    /\ dnaFile \in {NoDnaFile, OldDnaFile("1"), OldDnaFile("2")} /\ dnaObj = NoDnaObj
    /\ last = NoOp

NextVersion ==
    \/ \E cs \in {NoSizes, NewSizes} : RdcOpen(cs)
    \/ \E v \in VersionInputs : RdcSetVersion(v)
    \/ RdcSetChromsizes(NewSizes)
    \/ WritePixels(Each(Args({SignalTable}, {FirstAttrs})))
    \/ \E cs \in {NoSizes, NewSizes}, an \in {NoAnnotation, Annotation(RNAs)} : DnaOpen(cs, an)
    \/ \E v \in VersionInputs : DnaSetVersion(v)
    \/ DnaSetAnnotation(Annotation(RNAs))
    \/ WriteDnaPartsBatch({MkDnaFrame([i \in 1..MaxRows |-> <<"r1", "c1">>], "ok")})

SpecVersion == InitVersion /\ [][NextVersion]_vars

\* Writing and replacing the groups of the two stores
BatchTables ==
    {SignalTable, MkTable(BaseCols, TwoChromRows, "obj"), MkTable(BaseCols, <<>>, "ok")}
Record(tbl, rna) == [pixels |-> tbl, gene_coord |-> GeneCoord(rna), rna_attrs |-> FirstAttrs]
Batches ==
    {[r \in rnas |-> Record(IF r = "r1" THEN SignalTable ELSE t, r)] :
        rnas \in {{"r2"}, RNAs}, t \in BatchTables}
DnaSignal == MkDnaFrame([i \in 1..MaxRows |-> <<"r1", "c1">>], "ok")

InitWrite ==
    /\ rdcFile = NoRdcFile /\ rdcObj = NoRdcObj
    /\ dnaFile = NoDnaFile /\ dnaObj = NoDnaObj
    /\ last = NoOp

NextWrite ==
    \/ RdcOpen(NoSizes)
    \/ WritePixels([r \in RNAs |->
                      IF r = "r1"
                      THEN Args(PixelTables, {FirstAttrs}) \cup Args({SignalTable}, {NoFactorAttrs})
                      ELSE Args({SignalTable}, {FirstAttrs})])
    \/ WritePixelsBatch(Batches)
    \/ WriteScalingBatch({{"r1"}})
    \/ EstimateSignificance
    \/ \E an \in {NoAnnotation, Annotation({"r1"}), Annotation(RNAs)} : DnaOpen(NoSizes, an)
    \/ WriteDnaParts({DnaSignal, <<>>})
    \/ WriteDnaPartsBatch(DnaFrames)

SpecWrite == InitWrite /\ [][NextWrite]_vars

\* Column-level updates of a pixel store; "qvalue" is a column of version "1"
\* only, and the store is one of version "1.1"
ColumnNames == {"qvalue_global", "qvalue_rna", "qvalue"}
ColumnFrames == {MkTable(ColumnNames, ks, "ok") : ks \in {<<>>, SignalRows, SilentRows}}

InitColumn ==
    /\ rdcFile = NoRdcFile /\ rdcObj = NoRdcObj
    /\ dnaFile = NoDnaFile /\ dnaObj = NoDnaObj
    /\ last = NoOp

NextColumn ==
    \/ RdcOpen(NoSizes)
    \/ WritePixels(Each(Args({SignalTable}, {FirstAttrs})))
    \/ WritePixelsBatch({[r \in {"r1"} |-> Record(MkTable(BaseCols, TwoChromRows, "ok"), r)]})
    \/ WritePixelsColumn({"qvalue_global", "qvalue"}, ColumnFrames)
    \/ WritePixelsColumnBatch({"qvalue_rna"}, {MkTable(ColumnNames, SignalRows, "ok")})
    \/ EstimateSignificance

SpecColumn == InitColumn /\ [][NextColumn]_vars

\* The binning functions, each applied once to inputs within the bounds
Idle == last = NoOp /\ UNCHANGED <<rdcFile, rdcObj, dnaFile, dnaObj>>

MakeGeomBins(length, start_size, factor) ==
    /\ Idle
    /\ last' = [store |-> "bins", op |-> "make_geom_bins",
                ok |-> make_geom_bins(length, start_size, factor).ok,
                length |-> length, start_size |-> start_size, factor |-> factor,
                edges |-> make_geom_bins(length, start_size, factor).edges]

\* prune_geom_bins on the edges make_geom_bins returned
PruneGeomBins(length, start_size, factor, max_linear_size) ==
    /\ Idle
    /\ make_geom_bins(length, start_size, factor).ok
    /\ last' = [store |-> "bins", op |-> "prune_geom_bins",
                ok |-> prune_geom_bins(make_geom_bins(length, start_size, factor).edges,
                                       max_linear_size).ok,
                geom_bins |-> make_geom_bins(length, start_size, factor).edges,
                max_linear_size |-> max_linear_size,
                edges |-> prune_geom_bins(make_geom_bins(length, start_size, factor).edges,
                                          max_linear_size).edges]

InitBins ==
    /\ rdcFile = NoRdcFile /\ rdcObj = NoRdcObj
    /\ dnaFile = NoDnaFile /\ dnaObj = NoDnaObj
    /\ last = NoOp

\* chromosome lengths are positive
ChromSizes == [Chroms -> Lengths \ {0}]

MakeLinearBins(bin_size, chromsizes) ==
    /\ Idle
    /\ last' = [store |-> "bins", op |-> "make_linear_bins", ok |-> TRUE,
                bin_size |-> bin_size, chromsizes |-> chromsizes,
                bins |-> make_linear_bins(bin_size, chromsizes)]

\* the call of the binning scenario: a gene at [40,000, 41,000) of a chromosome
\* of 100,000 bases
Scenario ==
    [factor |-> 2, start_size |-> 5000, chrom_length |-> 100000,
     gene_start |-> 40000, gene_end |-> 41000, max_linear_size |-> 20000, fillgene |-> FALSE]

\* the scenario, and genes of no base, of one base and up to the end of a
\* chromosome of MaxLength bases
CisCalls ==
    {Scenario} \cup
    {[factor |-> f, start_size |-> s, chrom_length |-> MaxLength,
      gene_start |-> g[1], gene_end |-> g[2], max_linear_size |-> m, fillgene |-> fg] :
        f \in Factors, s \in {1, MaxStartSize},
        g \in {<<a, b>> \in {0, 2, MaxLength \div 2, MaxLength - 1} \X (0..MaxLength) :
                  b \in {a, a + 1, MaxLength}},
        m \in {None, 1, MaxLinearSize}, fg \in BOOLEAN}

MakeCisBins(call) ==
    /\ Idle
    /\ last' = [store |-> "bins", op |-> "make_cis_bins", call |-> call,
                ok |-> make_cis_bins(call.factor, call.start_size, "c1", call.chrom_length,
                                     call.gene_start, call.gene_end, call.max_linear_size,
                                     call.fillgene).ok,
                out |-> make_cis_bins(call.factor, call.start_size, "c1", call.chrom_length,
                                      call.gene_start, call.gene_end, call.max_linear_size,
                                      call.fillgene)]

\* Inputs of make_track: a genome of two chromosomes, a gene inside the first,
\* contacts beside the gene, in the gene and on the other chromosome, and a
\* background track that covers the genome
TrackChromSizes == [c \in Chroms |-> MaxLength \div 2]
TrackGene == [chrom |-> "c1", start |-> 4, end |-> 6]
ContactKinds ==
    {[chrom |-> "c1", start |-> 1, end |-> 2], [chrom |-> "c1", start |-> 4, end |-> 6],
     [chrom |-> "c1", start |-> 8, end |-> 11], [chrom |-> "c2", start |-> 3, end |-> 4]}
TrackAttrs ==
    {[a EXCEPT !.trans_bin_size = b] : a \in {FirstAttrs}, b \in {2, 3}}
BgTrack(count) ==
    [i \in DOMAIN LinearFrame(make_linear_bins(2 * 2, TrackChromSizes), ChromOrder) |->
        [chrom |-> LinearFrame(make_linear_bins(2 * 2, TrackChromSizes), ChromOrder)[i].chrom,
         start |-> LinearFrame(make_linear_bins(2 * 2, TrackChromSizes), ChromOrder)[i].start,
         end |-> LinearFrame(make_linear_bins(2 * 2, TrackChromSizes), ChromOrder)[i].end,
         count |-> count[LinearFrame(make_linear_bins(2 * 2, TrackChromSizes), ChromOrder)[i].chrom]]]
BgTracks == {BgTrack([c \in Chroms |-> 1]), BgTrack([c \in Chroms |-> IF c = "c1" THEN 0 ELSE 2])}

MakeTrack(dna_contacts, bg_track, rna_attrs, impute, ivalue) ==
    /\ Idle
    /\ last' = [store |-> "bins", op |-> "make_track", dna_contacts |-> dna_contacts,
                bg_track |-> bg_track, rna_attrs |-> rna_attrs, impute |-> impute,
                ivalue |-> ivalue,
                ok |-> make_track(dna_contacts, bg_track, TrackChromSizes, TrackGene,
                                  rna_attrs, impute, ivalue).ok,
                track |-> make_track(dna_contacts, bg_track, TrackChromSizes, TrackGene,
                                     rna_attrs, impute, ivalue).rows]

NextBins ==
    \/ \E dna_contacts \in SeqsUpTo(ContactKinds, MaxRows), bg_track \in BgTracks,
          rna_attrs \in TrackAttrs, impute \in BOOLEAN :
          MakeTrack(dna_contacts, bg_track, rna_attrs, impute, IF impute THEN 1 ELSE 0)
    \/ \E call \in CisCalls : MakeCisBins(call)
    \/ \E bin_size \in LinearSizes, chromsizes \in ChromSizes :
          MakeLinearBins(bin_size, chromsizes)
    \/ \E length \in Lengths, start_size \in StartSizes, factor \in Factors :
          MakeGeomBins(length, start_size, factor)
    \/ \E length \in Lengths, start_size \in StartSizes, factor \in Factors,
          max_linear_size \in LinearSizes :
          PruneGeomBins(length, start_size, factor, max_linear_size)

SpecBins == InitBins /\ [][NextBins]_vars

\* Estimating the significance and reading the peaks back
MixedRows ==
    [i \in 1..MaxRows |-> IF i = 1 THEN [chrom |-> "c1", sc |-> 1] ELSE [chrom |-> "c2", sc |-> 0]]
PeakTables == {SignalTable, MkTable(BaseCols, MixedRows, "ok")}
\* thresholds of one half and of one
Thresholds == {Scale \div 2, Scale}
TypeInputs == QvalueTypes \cup {"local"}
\* the default of fetch_top_percent, one half, and everything
TopPercents == {10, 50, 100}

InitPeaks ==
    /\ rdcFile \in {NoRdcFile, OldRdcFile("1")} /\ rdcObj = NoRdcObj
    /\ dnaFile = NoDnaFile /\ dnaObj = NoDnaObj
    /\ last = NoOp

NextPeaks ==
    \/ RdcOpen(NoSizes)
    \/ WritePixels(Each(Args(PeakTables, {FirstAttrs})))
    \/ EstimateSignificance
    \/ \E threshold \in Thresholds, qvalue_type \in TypeInputs : FetchPeaks(threshold, qvalue_type)
    \/ \E qvalue_type \in TypeInputs, top_percent \in TopPercents :
          FetchTopPercent(qvalue_type, top_percent)

SpecPeaks == InitPeaks /\ [][NextPeaks]_vars

\* ingestion: one bed2h5 call on a new file or on one that exists. The
\* contact kinds: inside c1, up to the end of c2, beyond the end of c1, a
\* negative start, a chromosome without a size, and an end before the start
IngestKinds == {"in", "edge", "beyond", "negative", "alien", "backwards"}
IngestNames == {"r/1", "r_1", "r2"}

IngestCoord(kind) ==
    CASE kind = "in" -> [chrom |-> "c1", start |-> 0, end |-> 1]
      [] kind = "edge" -> [chrom |-> "c2", start |-> 1, end |-> OldSizes.sizes["c2"]]
      [] kind = "beyond" -> [chrom |-> "c1", start |-> 1, end |-> OldSizes.sizes["c1"] + 1]
      [] kind = "negative" -> [chrom |-> "c1", start |-> 0 - 1, end |-> 1]
      [] kind = "alien" -> [chrom |-> "c3", start |-> 0, end |-> 1]
      [] kind = "backwards" -> [chrom |-> "c1", start |-> 2, end |-> 1]

IngestRow(name, coord) ==
    [name |-> name, chrom |-> coord.chrom,
     v |-> [c \in Range(DnaCols) |-> coord[c] * Scale]]

\* a row of the annotation holds the coordinates of its gene, or a bad interval
IngestGenes ==
    {IngestRow(n, GeneCoord(replace(n, "/", "_"))) : n \in IngestNames}
      \cup {IngestRow("r2", IngestCoord(k)) : k \in {"beyond", "backwards"}}
IngestAnnotations == SeqsUpTo(IngestGenes, MaxRows)
\* the contacts: good intervals under every name, bad ones under the name
\* that is rewritten
IngestContacts ==
    {IngestRow(n, IngestCoord(k)) : n \in IngestNames, k \in {"in", "edge"}}
      \cup {IngestRow("r/1", IngestCoord(k)) : k \in IngestKinds \ {"in", "edge"}}
IngestFrames == SeqsUpTo(IngestContacts, MaxRows)

Bed2h5(chromsizes, annotations, frames) ==
    /\ last = NoOp
    /\ \E annotation_df \in annotations, dna_frame \in frames :
         LET b == bed2h5(dnaFile, chromsizes, annotation_df, dna_frame)
         IN /\ dnaFile' = b.file
            /\ dnaObj' = b.obj
            /\ last' = [store |-> "dna", op |-> "bed2h5", ok |-> b.ok,
                        annotation_df |-> annotation_df, dna_frame |-> dna_frame,
                        annotation |-> b.annotation_df, refined |-> b.refined]
    /\ UNCHANGED <<rdcFile, rdcObj>>

InitIngest ==
    /\ rdcFile = NoRdcFile /\ rdcObj = NoRdcObj
    /\ dnaFile \in {NoDnaFile, OldDnaFile("1")} /\ dnaObj = NoDnaObj
    /\ last = NoOp

NextIngest == Bed2h5(OldSizes, IngestAnnotations, IngestFrames)

SpecIngest == InitIngest /\ [][NextIngest]_vars

(***************************************************************************)
(* Properties                                                               *)
(***************************************************************************)
RdcFlags == {"is_scaling_fitted", "are_peaks_estimated"}

\* C1 as stated: a status flag whose persisted value is true never becomes
\* false, whatever the store object is asked to do.
C1_StatusMonotonic ==
    [][/\ \A flag \in RdcFlags : rdcFile[flag] => rdcFile'[flag]
       /\ dnaFile.are_binsizes_selected => dnaFile'.are_binsizes_selected]_vars

\* C1, amended: a persisted true flag becomes false only in a step that assigns
\* False to that flag's property; opening the file again, writing pixels or
\* contacts and estimate_significance never reset it.
C1_ResetOnlyByAssignment ==
    [][/\ \A flag \in RdcFlags :
             rdcFile[flag] /\ ~rdcFile'[flag] =>
                 /\ last'.store = "rdc" /\ last'.op = "set_status"
                 /\ last'.flag = flag /\ last'.value = "False"
       /\ dnaFile.are_binsizes_selected /\ ~dnaFile'.are_binsizes_selected =>
             /\ last'.store = "dna" /\ last'.op = "set_status"
             /\ last'.value = "False"]_vars

\* a flag that was true has just been assigned False, and the file says False
C1_FlagWasReset ==
    /\ last.op = "set_status" /\ last.ok /\ last.value = "False" /\ last.was
    /\ last.store = "rdc" /\ last.flag = "are_peaks_estimated"
    /\ ~rdcFile.are_peaks_estimated

\* C2: estimate_significance takes a store to peaks_estimated only if its
\* scaling has been fitted (are_peaks_estimated implies is_scaling_fitted).
C2_PeaksOnlyAfterScaling ==
    [][/\ last'.op = "estimate_significance"
       /\ ~rdcFile.are_peaks_estimated /\ rdcFile'.are_peaks_estimated
       => rdcFile'.is_scaling_fitted]_vars

\* C9 as stated: once a file exists, no operation of the store object changes
\* the version attribute it holds.
C9_VersionFixed ==
    [][/\ rdcFile.exists => rdcFile'.version = rdcFile.version
       /\ dnaFile.exists => dnaFile'.version = dnaFile.version]_vars

\* C9, amended: the version attribute of a raw-contact file never changes; that
\* of a pixel file changes only in a step that assigns a supported version to
\* the version property, and then holds the value assigned.
C9_VersionChangesOnlyByAssignment ==
    [][/\ rdcFile.exists /\ rdcFile'.version # rdcFile.version =>
             /\ last'.store = "rdc" /\ last'.op = "set_version" /\ last'.ok
             /\ last'.value \in RdcSupported /\ rdcFile'.version = last'.value
       /\ dnaFile.exists => dnaFile'.version = dnaFile.version
       /\ last'.op = "set_version" /\ ~last'.ok =>
             rdcFile' = rdcFile /\ dnaFile' = dnaFile]_vars

\* an assignment to the version property has changed the version of a pixel file
C9_VersionReassigned ==
    /\ last.store = "rdc" /\ last.op = "set_version" /\ last.ok
    /\ last.was = "1.1" /\ rdcFile.version = "1"

\* C10: opening an existing raw-contact file whose version is not supported
\* raises, with or without chromsizes and annotation, and leaves the file as it
\* was: no group is read or written, the chromosome sizes included.
C10_UnsupportedVersionFailsFirst ==
    [][/\ last'.store = "dna" /\ last'.op = "open"
       /\ dnaFile.exists /\ dnaFile.version \notin DnaSupported
       => /\ ~last'.ok /\ last'.touched = {}
          /\ dnaFile' = dnaFile /\ dnaObj' = dnaObj]_vars

\* a raw-contact file of version "2" has been opened with chromsizes, in vain
C10_RefusedWithChromsizes ==
    /\ last.store = "dna" /\ last.op = "open" /\ ~last.ok
    /\ last.chromsizes.given /\ dnaFile.version = "2"
    /\ dnaFile.chrom_sizes.sizes = OldSizes.sizes

\* C3: under write_pixels, write_pixels_batch, write_pixels_column(_batch) and
\* estimate_significance, the q-value columns of the pixels of every RNA are
\* there if and only if are_peaks_estimated is true.
C3_QValuesIffPeaksEstimated ==
    rdcObj.open /\ rdcFile.pixels.present =>
        \A r \in DOMAIN rdcFile.pixels.g : \A c \in DOMAIN rdcFile.pixels.g[r].chroms :
            (ColNames(RdcSchema) \cap {"qvalue", "qvalue_global", "qvalue_rna"}
                 \subseteq DOMAIN rdcFile.pixels.g[r].chroms[c])
              <=> rdcFile.are_peaks_estimated

\* C4: when write_pixels returns for an RNA that had a group, and when
\* write_dna_parts_batch returns for the RNAs of its frame that had one, the
\* group holds the chromosomes, columns, values and attributes of the new data
\* and nothing else.
C4_WriteReplacesGroup ==
    [][/\ last'.op = "write_pixels" /\ last'.ok /\ HasRna(rdcFile.pixels, last'.rna) =>
             LET g == rdcFile'.pixels.g[last'.rna]
                 tbl == last'.tbl
                 cols == tbl.cols \cap ColNames(RdcSchema)
             IN /\ DOMAIN g.chroms = TableChroms(tbl)
                /\ \A c \in DOMAIN g.chroms :
                      /\ DOMAIN g.chroms[c] = cols
                      /\ \A col \in cols :
                            g.chroms[c][col] =
                               [i \in DOMAIN RowsOf(tbl, c) |->
                                   AsType(DTypeIn(RdcSchema, col), RowsOf(tbl, c)[i].v[col])]
                /\ DOMAIN g.attrs = {a \in RnaAttrNames : last'.attrs[a] # None} \cup {"start", "end"}
                /\ \A a \in DOMAIN g.attrs \cap RnaAttrNames : g.attrs[a] = last'.attrs[a]
       /\ last'.op = "write_dna_parts_batch" /\ last'.ok =>
             \A r \in Range(FrameRnas(last'.frame)) \cap DOMAIN dnaFile.dna_parts.g :
                LET g == dnaFile'.dna_parts.g[r]
                    parts == PartsOf(last'.frame, r)
                IN /\ DOMAIN g.chroms = PartChroms(parts)
                   /\ \A c \in DOMAIN g.chroms :
                         /\ DOMAIN g.chroms[c] = {"start", "end"}
                         /\ \A col \in {"start", "end"} :
                               g.chroms[c][col] =
                                  [i \in DOMAIN PartsOn(parts, c) |->
                                      AsType("int64", PartsOn(parts, c)[i].v[col])]
                   /\ DOMAIN g.attrs = {"start", "end", "total_contacts"}
                   /\ g.attrs["total_contacts"] = Len(parts)]_vars

\* write_pixels has replaced a group that held a second chromosome, the
\* columns of estimate_significance, a scaling spline and a cis_factor by a
\* table and attributes that have none of them
C4_OldGroupGone ==
    /\ last.op = "write_pixels" /\ last.ok /\ last.had
    /\ "c2" \in last.old.chroms /\ TableChroms(last.tbl) = {"c1"}
    /\ StatCols \subseteq last.old.cols /\ last.tbl.cols = BaseCols
    /\ {"scaling_spline_t", "cis_factor"} \subseteq last.old.attrs
    /\ last.attrs.cis_factor = None
    /\ GroupNames(rdcFile.pixels, last.rna) =
          [attrs |-> (RnaAttrNames \ {"cis_factor"}) \cup {"start", "end"},
           chroms |-> {"c1"}, cols |-> BaseCols]

\* C5: a batch that raised while writing its k-th RNA leaves the RNAs before it
\* fully written, and the k-th RNA absent or fully written: every chromosome
\* of its data with every column (both datasets, for contacts).
C5_BatchLeavesNoPartialGroup ==
    /\ last.op = "write_pixels_batch" /\ ~last.ok =>
          \A r \in DOMAIN last.data :
             PosIn(DictOrder(last.data), r) <= PosIn(DictOrder(last.data), last.failed) =>
                \/ r = last.failed /\ ~HasRna(rdcFile.pixels, r)
                \/ /\ HasRna(rdcFile.pixels, r)
                   /\ DOMAIN rdcFile.pixels.g[r].chroms = TableChroms(last.data[r].pixels)
                   /\ \A c \in DOMAIN rdcFile.pixels.g[r].chroms :
                         DOMAIN rdcFile.pixels.g[r].chroms[c] =
                            last.data[r].pixels.cols \cap ColNames(RdcSchema)
    /\ last.op = "write_dna_parts_batch" /\ ~last.ok =>
          \A r \in Range(FrameRnas(last.frame)) :
             PosIn(FrameRnas(last.frame), r) <= PosIn(FrameRnas(last.frame), last.failed) =>
                \/ r = last.failed /\ r \notin DOMAIN dnaFile.dna_parts.g
                \/ r = last.failed /\ r \notin DnaAnnotation(dnaFile, dnaObj).names
                \/ /\ r \in DOMAIN dnaFile.dna_parts.g
                   /\ DOMAIN dnaFile.dna_parts.g[r].chroms = PartChroms(PartsOf(last.frame, r))
                   /\ \A c \in DOMAIN dnaFile.dna_parts.g[r].chroms :
                         DOMAIN dnaFile.dna_parts.g[r].chroms[c] = {"start", "end"}

\* C6: for an RNA of the annotation, write_dna_parts followed by
\* read_dna_parts succeeds and returns the rows written, as a multiset of
\* (chrom, start, end).
C6_DnaPartsRoundTrip ==
    /\ last.op = "write_dna_parts"
    /\ DnaAnnotation(dnaFile, dnaObj).ok
    /\ last.rna \in DnaAnnotation(dnaFile, dnaObj).names
    => LET read == _read_dna_parts(dnaFile.dna_parts, last.rna)
           wrote == [i \in DOMAIN last.parts |-> [chrom |-> last.parts[i].chrom, v |-> last.parts[i].v]]
       IN /\ last.ok /\ read.ok
          /\ \A x \in Range(wrote) \cup Range(read.rows) :
                Cardinality({i \in DOMAIN wrote : wrote[i] = x}) =
                   Cardinality({i \in DOMAIN read.rows : read.rows[i] = x})

\* C7: for a well-typed Pixel table whose columns all belong to the schema of
\* the store's version, rows or no rows, write_pixels followed by read_pixels
\* succeeds and returns the rows written, as a multiset.
C7_PixelsRoundTrip ==
    /\ last.op = "write_pixels"
    /\ last.tbl.cols \subseteq ColNames(RdcSchema)
    /\ WellTyped(last.tbl, RdcSchema)
    => LET read == _read_pixels(rdcFile.pixels, last.rna, AllFields, "None")
       IN /\ last.ok /\ read.ok
          /\ \A x \in Range(last.tbl.rows) \cup Range(read.rows) :
                Cardinality({i \in DOMAIN last.tbl.rows : last.tbl.rows[i] = x}) =
                   Cardinality({i \in DOMAIN read.rows : read.rows[i] = x})

\* C8: write_pixels_column raises whenever the RNA has no group, a chromosome
\* of the frame has no group under the RNA, or the column is not in the schema
\* of the store's version, for a frame of any length.
C8_ColumnWriteFails ==
    [][/\ last'.op = "write_pixels_column"
       /\ \/ ~HasRna(rdcFile.pixels, last'.rna)
          \/ ~(TableChroms(last'.frame) \subseteq last'.old.chroms)
          \/ last'.col \notin ColNames(RdcSchema)
       => ~last'.ok]_vars

\* C11: opening an existing pixel file whose version is not "1" or "1.1"
\* raises and leaves the content of the file as it was, the chrom_sizes group
\* included, with or without a chromsizes argument.
C11_UnsupportedRdcVersionFailsClosed ==
    [][/\ last'.store = "rdc" /\ last'.op = "open"
       /\ rdcFile.exists /\ rdcFile.version \notin RdcSupported
       => ~last'.ok /\ rdcFile' = rdcFile]_vars

StrictlyIncreasing(edges) == \A i \in 1..(Len(edges) - 1) : edges[i] < edges[i + 1]

\* C12: for every length >= 0, start size > 0 and factor >= 1, make_geom_bins
\* returns strictly increasing edges, the first 0 and the last the length,
\* lengths shorter than the start size included.
C12_GeomBinsSpanLength ==
    last.op = "make_geom_bins" /\ last.factor >= 1
    => /\ last.ok
       /\ Len(last.edges) >= 1
       /\ StrictlyIncreasing(last.edges)
       /\ last.edges[1] = 0
       /\ last.edges[Len(last.edges)] = last.length

\* C13: for edges that make_geom_bins produced and every max_linear_size > 0,
\* prune_geom_bins returns strictly increasing edges with the first edge (0)
\* and the last edge (the length) of its input.
C13_PrunedBinsSpanLength ==
    last.op = "prune_geom_bins"
    /\ StrictlyIncreasing(last.geom_bins) /\ last.geom_bins[1] = 0
    => /\ last.ok
       /\ StrictlyIncreasing(last.edges)
       /\ last.edges[1] = last.geom_bins[1]
       /\ last.edges[Len(last.edges)] = last.geom_bins[Len(last.geom_bins)]

\* C14: in the output of prune_geom_bins no bin is wider than max_linear_size:
\* the geometric bins kept are the leading bins of width <= max_linear_size,
\* every bin after them has width max_linear_size, the last one at most that.
C14_PrunedBinsWithinMaxLinearSize ==
    last.op = "prune_geom_bins"
    /\ StrictlyIncreasing(last.geom_bins) /\ last.geom_bins[1] = 0
    => /\ last.ok
       /\ \A i \in DOMAIN Diff(last.edges) : Diff(last.edges)[i] <= last.max_linear_size
       /\ \E n \in 0..Len(Diff(last.edges)) :
             /\ n <= Len(Diff(last.geom_bins))
             /\ \A i \in 1..n : Diff(last.edges)[i] = Diff(last.geom_bins)[i]
             /\ n < Len(Diff(last.geom_bins)) =>
                   Diff(last.geom_bins)[n + 1] > last.max_linear_size
             /\ \A i \in (n + 1)..(Len(Diff(last.edges)) - 1) :
                   Diff(last.edges)[i] = last.max_linear_size

\* C15: for every bin_size >= 1 and every chromosome of length L > 0 the bins
\* of make_linear_bins partition [0, L): the first starts at 0, each starts
\* where the one before ends, the last ends at L, every bin but the last has
\* width bin_size and the last has width <= bin_size.
C15_LinearBinsPartition ==
    last.op = "make_linear_bins" =>
        \A chrom \in DOMAIN last.chromsizes :
            LET starts == last.bins[chrom].starts
                ends == last.bins[chrom].ends
            IN /\ Len(starts) = Len(ends) /\ Len(starts) >= 1
               /\ starts[1] = 0
               /\ ends[Len(ends)] = last.chromsizes[chrom]
               /\ \A i \in 1..(Len(starts) - 1) :
                     starts[i + 1] = ends[i] /\ ends[i] - starts[i] = last.bin_size
               /\ ends[Len(ends)] - starts[Len(starts)] <= last.bin_size
               /\ ends[Len(ends)] - starts[Len(starts)] > 0

\* a chromosome has been cut into several bins, the last one shorter
C15_ShortTrailingBin ==
    /\ last.op = "make_linear_bins"
    /\ \E chrom \in DOMAIN last.chromsizes :
          /\ Len(last.bins[chrom].starts) >= 3
          /\ last.bins[chrom].ends[Len(last.bins[chrom].ends)]
                - last.bins[chrom].starts[Len(last.bins[chrom].starts)] < last.bin_size

\* C16: for a chromosome of 100,000, the gene [40,000, 41,000), factor 2, start
\* size 5000 and max_linear_size 20000, the upstream bins of make_cis_bins have,
\* going outward from the gene start, the widths 5000, 10000, 20000 and then
\* widths of at most 20000 down to 0; the downstream bins mirror this outward
\* from 41,000 up to 100,000.
C16_ScenarioCisBins ==
    last.op = "make_cis_bins" /\ last.call = Scenario
    => LET up == Diff(last.out.upstream_edges)
           down == Diff(last.out.downstream_edges)
       IN /\ last.ok
          /\ last.out.upstream_edges[1] = 0
          /\ last.out.upstream_edges[Len(last.out.upstream_edges)] = 40000
          /\ Len(up) >= 3
          /\ up[Len(up)] = 5000 /\ up[Len(up) - 1] = 10000 /\ up[Len(up) - 2] = 20000
          /\ \A i \in 1..(Len(up) - 3) : 0 < up[i] /\ up[i] <= 20000
          /\ last.out.downstream_edges[1] = 41000
          /\ last.out.downstream_edges[Len(last.out.downstream_edges)] = 100000
          /\ Len(down) >= 3
          /\ down[1] = 5000 /\ down[2] = 10000 /\ down[3] = 20000
          /\ \A i \in 4..Len(down) : 0 < down[i] /\ down[i] <= 20000

\* C17: in the track of make_track for one RNA, signal_prob of every bin is its
\* signal_count over the sum of signal_count of all bins, cis and trans
\* together, so the column sums to 1; bg_prob likewise is bg_count over the sum
\* of bg_count of all bins. Stated for tracks with signal and background both
\* on the gene's chromosome and off it.
C17_ProbsNormalisedOverTrack ==
    /\ last.op = "make_track" /\ last.ok
    /\ \A on \in BOOLEAN : \E i \in DOMAIN last.track :
          /\ (last.track[i].chrom = TrackGene.chrom) = on
          /\ last.track[i].signal_count > 0
    /\ \A on \in BOOLEAN : \E i \in DOMAIN last.track :
          /\ (last.track[i].chrom = TrackGene.chrom) = on
          /\ last.track[i].bg_count.n > 0
    => /\ \A i \in DOMAIN last.track :
             /\ last.track[i].signal_prob =
                   FracDiv(NormFrac(last.track[i].signal_count, 1),
                           NormFrac(IntSum(last.track, "signal_count", Len(last.track)), 1))
             /\ last.track[i].bg_prob =
                   FracDiv(last.track[i].bg_count,
                           FracSum(last.track, "bg_count", Len(last.track)))
       /\ FracSum(last.track, "signal_prob", Len(last.track)) = FracOne
       /\ FracSum(last.track, "bg_prob", Len(last.track)) = FracOne

\* C18: bins with signal_count = 0 do not make estimate_significance raise: on
\* a store whose RNAs all have bins, some of them, or all bins of some RNA,
\* with signal_count = 0, the call completes, and afterwards exactly the bins
\* with signal_count = 0 have NaN pvalue, qvalue_global and qvalue_rna.
C18_ZeroSignalGivesNaN ==
    [][/\ last'.op = "estimate_significance"
       /\ {"pvalue", "qvalue_global", "qvalue_rna"} \subseteq ColNames(RdcSchema)
       /\ rdcFile.pixels.present /\ DOMAIN rdcFile.pixels.g # {}
       /\ _calculate_pvals(rdcFile.pixels).ok
       /\ \A r \in DOMAIN rdcFile.pixels.g : _calculate_pvals(rdcFile.pixels).stats[r] # <<>>
       => /\ last'.ok
          /\ \A r \in DOMAIN rdcFile'.pixels.g :
                LET read == _read_pixels(rdcFile'.pixels, r,
                                Fields({"signal_count", "pvalue", "qvalue_global", "qvalue_rna"}),
                                "None")
                IN /\ read.ok
                   /\ \A i \in DOMAIN read.rows :
                      \A c \in {"pvalue", "qvalue_global", "qvalue_rna"} :
                         (read.rows[i].v["signal_count"] = 0) <=> (read.rows[i].v[c] = NaN)]_vars

\* the bins of the store whose q-value of the chosen type is a number below
\* the threshold, over all RNA groups of the file
BinsBelow(pixels, threshold, qvalue_type) ==
    UNION {Range(_fetch_peaks_single(pixels, r, threshold, qvalue_type).rows) :
              r \in DOMAIN pixels.g}

\* C19: fetch_peaks raises, before any pixel data is read, when
\* are_peaks_estimated is false or qvalue_type is not global or rna; otherwise
\* it returns exactly the bins, over all RNAs, whose chosen q-value is below
\* the threshold, none of them with a NaN q-value. The second part is stated
\* for stores in which every RNA has pixels with the chosen q-value column.
C19_FetchPeaksGuardsAndFilters ==
    [][last'.op = "fetch_peaks" =>
         IF ~StatusGet(rdcFile.are_peaks_estimated, rdcObj.are_peaks_estimated).value
               \/ last'.qvalue_type \notin QvalueTypes
         THEN ~last'.ok /\ ~last'.read /\ rdcObj'.annotation = rdcObj.annotation
         ELSE (/\ rdcFile.pixels.present /\ DOMAIN rdcFile.pixels.g # {}
               /\ \A r \in DOMAIN rdcFile.pixels.g :
                     _fetch_peaks_single(rdcFile.pixels, r, last'.threshold, last'.qvalue_type).ok)
              => /\ last'.ok
                 /\ Range(last'.peaks) =
                       BinsBelow(rdcFile.pixels, last'.threshold, last'.qvalue_type)
                 /\ \A i \in DOMAIN last'.peaks : last'.peaks[i].qvalue # NaN]_vars

\* the bins of the store with a q-value of the chosen type that is a number
RankedBins(pixels, qvalue_type) ==
    UNION {Range(_fetch_top_percent_single(pixels, r, qvalue_type, 100).rows) :
              r \in DOMAIN pixels.g}

\* C20: fetch_top_percent ranks all bins of the store with a non-NaN chosen
\* q-value by ascending q-value and keeps the top top_percent% of them: it
\* returns floor(N * top_percent / 100) bins, N being the number of non-NaN
\* bins, and every bin returned has a q-value <= that of every non-NaN bin not
\* returned. Stated for stores in which every RNA has pixels with the chosen
\* q-value column and the object's annotation names the RNAs of the file.
C20_TopPercentOfAllBins ==
    [][/\ last'.op = "fetch_top_percent"
       /\ StatusGet(rdcFile.are_peaks_estimated, rdcObj.are_peaks_estimated).value
       /\ last'.qvalue_type \in QvalueTypes
       /\ rdcFile.pixels.present /\ DOMAIN rdcFile.pixels.g # {}
       /\ rdcObj.annotation.given => rdcObj.annotation.names = DOMAIN rdcFile.pixels.g
       /\ \A r \in DOMAIN rdcFile.pixels.g :
             _fetch_top_percent_single(rdcFile.pixels, r, last'.qvalue_type, 100).ok
       => /\ last'.ok
          /\ Len(last'.peaks) =
                (Cardinality(RankedBins(rdcFile.pixels, last'.qvalue_type)) * last'.top_percent)
                   \div 100
          /\ Range(last'.peaks) \subseteq RankedBins(rdcFile.pixels, last'.qvalue_type)
          /\ \A p \in Range(last'.peaks) :
             \A b \in RankedBins(rdcFile.pixels, last'.qvalue_type) \ Range(last'.peaks) :
                p.qvalue <= b.qvalue]_vars

\* the q-value columns the schema of the open store declares
QvalueCols == ColNames(RdcSchema) \cap {"qvalue", "qvalue_global", "qvalue_rna"}

\* C21: on a store of version "1" as on one of version "1.1",
\* estimate_significance completes, writes the q-value columns of the
\* version's schema for every RNA and sets are_peaks_estimated; fetch_peaks
\* then succeeds. Stated for stores whose RNAs all have a bin with signal.
C21_BothVersionsSupported ==
    [][/\ (/\ last'.op = "estimate_significance"
           /\ rdcFile.pixels.present /\ DOMAIN rdcFile.pixels.g # {}
           /\ _calculate_pvals(rdcFile.pixels).ok
           /\ \A r \in DOMAIN rdcFile.pixels.g :
                 \E i \in DOMAIN _calculate_pvals(rdcFile.pixels).stats[r] :
                    _calculate_pvals(rdcFile.pixels).stats[r][i].pvalue # NaN)
          => /\ last'.ok /\ rdcFile'.are_peaks_estimated
             /\ \A r \in DOMAIN rdcFile'.pixels.g :
                \A c \in DOMAIN rdcFile'.pixels.g[r].chroms :
                   QvalueCols \subseteq DOMAIN rdcFile'.pixels.g[r].chroms[c]
       /\ (/\ last'.op = "fetch_peaks" /\ last'.qvalue_type \in QvalueTypes
           /\ rdcFile.are_peaks_estimated /\ rdcObj.are_peaks_estimated # "False"
           /\ rdcFile.pixels.present /\ DOMAIN rdcFile.pixels.g # {}
           /\ \A r \in DOMAIN rdcFile.pixels.g :
                 /\ DOMAIN rdcFile.pixels.g[r].chroms # {}
                 /\ \A c \in DOMAIN rdcFile.pixels.g[r].chroms :
                       QvalueCols \subseteq DOMAIN rdcFile.pixels.g[r].chroms[c])
          => last'.ok]_vars

\* a row that breaks a rule of the validation: a chromosome without a size, a
\* negative start, or an end beyond the chromosome
Offending(r, sizes) ==
    \/ r.chrom \notin DOMAIN sizes
    \/ r.v["start"] < 0
    \/ r.v["end"] > sizes[r.chrom] * Scale
Backwards(frame) == \E i \in DOMAIN frame : frame[i].v["end"] < frame[i].v["start"]
Rewritten(name) == IF name = "r/1" THEN "r_1" ELSE name
\* the names of the annotation rows that break no rule
Annotated(annotation_df, sizes) ==
    {Rewritten(annotation_df[i].name) :
        i \in {j \in DOMAIN annotation_df : ~Offending(annotation_df[j], sizes)}}
\* the rows of a contact table that break no rule, under their rewritten names
Sound(dna_frame, annotation_df, sizes) ==
    SelectSeq([i \in DOMAIN dna_frame |-> [dna_frame[i] EXCEPT !.name = Rewritten(@)]],
              LAMBDA r : ~Offending(r, sizes) /\ r.name \in Annotated(annotation_df, sizes))

C25_StoredContactsValid ==
    (last.op = "bed2h5" /\ last.ok) =>
       /\ \A r \in DOMAIN dnaFile.dna_parts.g :
             /\ r \in dnaObj.annotation.names
             /\ \A c \in DOMAIN dnaFile.dna_parts.g[r].chroms :
                   /\ c \in DOMAIN dnaFile.chrom_sizes.sizes
                   /\ \A i \in DOMAIN dnaFile.dna_parts.g[r].chroms[c]["start"] :
                         /\ dnaFile.dna_parts.g[r].chroms[c]["start"][i] >= 0
                         /\ dnaFile.dna_parts.g[r].chroms[c]["end"][i]
                               <= dnaFile.chrom_sizes.sizes[c]
       /\ \A r \in dnaObj.annotation.names :
             /\ r \in DOMAIN dnaFile.dna_parts.g
             /\ \E c \in DOMAIN dnaFile.dna_parts.g[r].chroms :
                   Len(dnaFile.dna_parts.g[r].chroms[c]["start"]) >= 1

\* a call that stores a contact ending at the end of its chromosome and
\* drops the other row of the table
C25_EdgeContactStored ==
    /\ last.op = "bed2h5" /\ last.ok
    /\ Len(last.refined) < Len(last.dna_frame)
    /\ \E r \in DOMAIN dnaFile.dna_parts.g :
          \E c \in DOMAIN dnaFile.dna_parts.g[r].chroms :
             \E i \in DOMAIN dnaFile.dna_parts.g[r].chroms[c]["end"] :
                dnaFile.dna_parts.g[r].chroms[c]["end"][i] = dnaFile.chrom_sizes.sizes[c]

\* C30: bed2h5 never merges two RNAs: the contacts of every stored RNA group
\* carried one and the same name in the input table, so the group holds no
\* more contacts than the input has rows of that name.
C30_NoTwoRnasMerged ==
    (last.op = "bed2h5" /\ last.ok) =>
       \A g \in DOMAIN dnaFile.dna_parts.g :
          \E n \in Range(FrameNames(last.dna_frame)) :
             dnaFile.dna_parts.g[g].attrs["total_contacts"]
                <= Cardinality({i \in DOMAIN last.dna_frame : last.dna_frame[i].name = n})

StatColumns == {"pvalue", "qvalue_global", "qvalue_rna"}

\* C23: estimate_significance sets are_peaks_estimated only as its last
\* step: a call that raises leaves the flag, in the file and in the object,
\* as it was, and a call that sets it has computed the p-values of every RNA
\* and written the pvalue, qvalue_global and qvalue_rna columns of every RNA.
C23_FlagSetAsLastStep ==
    [][last'.op = "estimate_significance" =>
          /\ ~last'.ok =>
                /\ rdcFile'.are_peaks_estimated = rdcFile.are_peaks_estimated
                /\ rdcObj'.are_peaks_estimated = rdcObj.are_peaks_estimated
          /\ last'.ok =>
                /\ rdcFile'.are_peaks_estimated /\ rdcObj'.are_peaks_estimated = "True"
                /\ _calculate_pvals(rdcFile.pixels).ok
                /\ DOMAIN rdcFile'.pixels.g = DOMAIN rdcFile.pixels.g
                /\ \A r \in DOMAIN rdcFile'.pixels.g :
                      \A c \in DOMAIN rdcFile'.pixels.g[r].chroms :
                         StatColumns \subseteq DOMAIN rdcFile'.pixels.g[r].chroms[c]]_vars

\* a call that raised after the pvalue column was written: the flag is unset
C23_RaisedAfterPvalueWritten ==
    /\ last.op = "estimate_significance" /\ ~last.ok
    /\ ~rdcFile.are_peaks_estimated
    /\ \E r \in DOMAIN rdcFile.pixels.g :
          \E c \in DOMAIN rdcFile.pixels.g[r].chroms :
             "pvalue" \in DOMAIN rdcFile.pixels.g[r].chroms[c]

\* the RNAs of the store whose worker raises
FailingWorkers(pixels) ==
    {r \in DOMAIN pixels.g :
        \/ ~({"cis_contacts", "trans_contacts"} \subseteq DOMAIN pixels.g[r].attrs)
        \/ ~_calculate_pvals_single(pixels, r, TotalContacts(pixels.g[r].attrs)).ok}

\* C24: when the worker of one RNA raises, estimate_significance raises, and
\* no column of any RNA is written and the flag is left as it was.
C24_WorkerFailureAbortsBatch ==
    [][(/\ last'.op = "estimate_significance"
        /\ rdcFile.pixels.present /\ FailingWorkers(rdcFile.pixels) # {})
       => /\ ~last'.ok
          /\ rdcFile' = rdcFile
          /\ rdcObj'.are_peaks_estimated = rdcObj.are_peaks_estimated]_vars

\* a call that raised on a store where the worker of one RNA raises and that
\* of another RNA does not
C24_OneWorkerOfTwoRaised ==
    /\ last.op = "estimate_significance" /\ ~last.ok
    /\ rdcFile.pixels.present
    /\ FailingWorkers(rdcFile.pixels) # {}
    /\ DOMAIN rdcFile.pixels.g \ FailingWorkers(rdcFile.pixels) # {}

\* C28: a write_pixels_column or write_pixels_column_batch call that raises
\* leaves every dataset of the pixel store as it was before the call.
C28_FailedColumnWriteLeavesStore ==
    [][(last'.op \in {"write_pixels_column", "write_pixels_column_batch"} /\ ~last'.ok)
       => rdcFile'.pixels = rdcFile.pixels]_vars

\* half-open intervals inside [0, length), pairwise disjoint
ProperBins(bins, length) ==
    /\ \A i \in DOMAIN bins : 0 <= bins[i].start /\ bins[i].start < bins[i].end
                              /\ bins[i].end <= length
    /\ \A i, j \in DOMAIN bins :
          i # j => (bins[i].end <= bins[j].start \/ bins[j].end <= bins[i].start)

\* C26: with cis_factor >= 1, cis_start > 0 and trans_bin_size > 0, for every
\* gene inside its chromosome the cis bins are built as make_track builds
\* them (max_linear_size = trans_bin_size, the gene left out), and they are
\* half-open intervals within the chromosome, pairwise disjoint, none of them
\* overlapping the gene body.
C26_CisBinsProper ==
    (/\ last.op = "make_cis_bins"
     /\ last.call.factor >= 1 /\ last.call.start_size > 0
     /\ last.call.max_linear_size # None /\ last.call.max_linear_size > 0
     /\ ~last.call.fillgene)
    => /\ last.ok
       /\ ProperBins(last.out.bins, last.call.chrom_length)
       /\ \A i \in DOMAIN last.out.bins :
             \/ last.out.bins[i].end <= last.call.gene_start
             \/ last.call.gene_end <= last.out.bins[i].start


\* the rescaled background count of a row of the track
RescaledOf(row, bg_track) == RescaledBg(row, bg_track, BgRows(row, bg_track))

\* C27: with imputation enabled a bin of the track is marked impute and has
\* bg_count = bin width * ivalue exactly when its signal_count is > 0 and its
\* rescaled background count is 0; every other bin keeps the rescaled count,
\* unmarked; with imputation disabled no bin is marked or replaced.
C27_ImputeExactlyDropouts ==
    (last.op = "make_track" /\ last.ok) =>
       \A i \in DOMAIN last.track :
          /\ last.track[i].impute <=>
                /\ last.impute
                /\ last.track[i].signal_count > 0
                /\ RescaledOf(last.track[i], last.bg_track) = NormFrac(0, 1)
          /\ last.track[i].bg_count =
                IF last.track[i].impute
                THEN NormFrac((last.track[i].end - last.track[i].start) * last.ivalue, 1)
                ELSE RescaledOf(last.track[i], last.bg_track)

\* a track with an imputed bin, a bin with signal and background, and a bin
\* without signal and without background
C27_DropoutImputed ==
    /\ last.op = "make_track" /\ last.ok /\ last.impute
    /\ \E i, j, k \in DOMAIN last.track :
          /\ last.track[i].impute /\ last.track[i].bg_count # NormFrac(0, 1)
          /\ ~last.track[j].impute /\ last.track[j].signal_count > 0
          /\ ~last.track[k].impute /\ last.track[k].signal_count = 0
          /\ last.track[k].bg_count = NormFrac(0, 1)

\* the centre of a contact lies in a bin of the track
CentreIn(contact, row) ==
    /\ contact.chrom = row.chrom
    /\ row.start <= (contact.start + contact.end) \div 2
    /\ (contact.start + contact.end) \div 2 < row.end

\* C29: in the track of one RNA every contact is counted, by its centre
\* floor((start + end) / 2), in at most one bin: the signal counts add up to
\* the number of contacts whose centre lies in a bin, which is no more than
\* the number of contacts.
C29_ContactCountedAtMostOnce ==
    (last.op = "make_track" /\ last.ok) =>
       /\ IntSum(last.track, "signal_count", Len(last.track)) <= Len(last.dna_contacts)
       /\ \A c \in DOMAIN last.dna_contacts :
             Cardinality({i \in DOMAIN last.track :
                             CentreIn(last.dna_contacts[c], last.track[i])}) <= 1
       /\ \A i \in DOMAIN last.track :
             last.track[i].signal_count =
                Cardinality({c \in DOMAIN last.dna_contacts :
                                CentreIn(last.dna_contacts[c], last.track[i])})

\* a track of two contacts, one counted in a bin and one, centred in the gene
\* body, counted in none
C29_GeneBodyContactUncounted ==
    /\ last.op = "make_track" /\ last.ok
    /\ Len(last.dna_contacts) = MaxRows
    /\ IntSum(last.track, "signal_count", Len(last.track)) = Len(last.dna_contacts) - 1
====
